---- MODULE Spec2Model ----
(***************************************************************************)
(* A model of the Nightscout/Dexcom widget and dashboard:                  *)
(*   - the chart render section of the widget (widget.py, _render_chart),  *)
(*   - the dashboard refresh cycle and its fallback IOB (dashboard.py),    *)
(*   - the widget update cycle (widget.py, update_async / update_data),    *)
(*   - the record classifier and time normaliser (dashboard.py),           *)
(*   - the basal reconciler (dashboard.py).                                *)
(* Each part has its own specification over the shared variables; the      *)
(* variables of the other parts stay at their initial values.              *)
(***************************************************************************)
EXTENDS Integers, Sequences, FiniteSets, TLC

VARIABLES
    \* ---- widget.py, _render_chart ----
    plotLock,       \* self._plot_lock: 0 when free, else the thread holding it
    pc,             \* per calling thread: its position inside _render_chart
    axes,           \* the shared axes: "drawn", or "cleared" in mid-render
    rendered,       \* per thread: renders completed (history)
    dropped,        \* per thread: requests that returned without drawing (history)
    \* ---- dashboard.py, main / render_once ----
    dpc,            \* the dashboard process: "start", "running", "exited", "failed"
    envBASE,        \* dashboard.BASE is set (NIGHTSCOUT_URL configured)
    envUseDexcom,   \* USE_DEXCOM is on
    NOW,            \* dashboard.NOW, the module-level instant read at import
    clock,          \* the wall clock, in minutes
    srvTreatments,  \* the treatment records the server holds
    srvStatus,      \* the latest device snapshot the server holds
    cycles,         \* refresh cycles run so far
    cycNow,         \* render_once: now
    cycTreatments,  \* render_once: treatments, as fetched
    cycFallback,    \* render_once: the fallback bolus IOB was used
    cycBolusIob,    \* render_once: bolus_iob, in 1/IobScale units
    cycBasalIob,    \* render_once: basal_iob
    cycCob,         \* render_once: cob_g
    dashReports,    \* missing-configuration reports made by the dashboard
    \* ---- widget.py, CGMWidget update cycle ----
    wBASE,          \* widget.BASE is set (read once, at import)
    wAUTH,          \* widget.TOKEN or widget.SECRET_SHA1 is set (read at import)
    dexcomOnly,     \* self._dexcom_only
    timers,         \* pending root.after(..., self.update_async) callbacks
    workers,        \* update_data threads started and not yet run
    wStatus,        \* what the labels show: "init", "data", or an error text
    wCycles,        \* update_data runs so far
    wReports,       \* missing-configuration reports made by the widget
    \* ---- dashboard.py, the functions over raw records ----
    rawTreatments,  \* raw treatment records, as the treatments query returns them
    rawEntries,     \* raw glucose entries, as the entries query returns them
    applied,        \* which of the functions have been applied to them
    splitOut,       \* split_events(treatments)
    rowsOut,        \* the rows of fetch_entries
    iobOut,         \* fallback_bolus_iob(treatments)
    \* ---- dashboard.py, the basal plan and its overlays ----
    plan,           \* the basal profile: segment start second -> rate
    temps,          \* the temp-basal overlays, in the order of split_events
    gridStart,      \* first instant of the minute grid (local seconds)
    built,          \* build_basal_series has returned
    series,         \* its rows: t, plan_u_per_h, actual_u_per_h, is_temp
    asked,          \* the instant current_plan_basal was called with, if any
    current,        \* what it returned
    \* ---- the trend arrow of a cycle ----
    readings,       \* the direction fields of the readings, oldest first
    slope,          \* what compute_arrow_from_slope returns on these readings
    trendDone,      \* which of the two cycles have resolved their arrow
    dashArrow,      \* render_once's current_direction
    dashSlope,      \* render_once called compute_arrow_from_slope
    widArrow,       \* update_data's arrow
    widSlope,       \* update_data called compute_arrow_from_slope
    \* ---- the sensor age of a device snapshot ----
    snapshot,       \* the latest device snapshot, a nested JSON object
    ageDone,        \* _extract_ages has run on it
    sensor_age_min, \* the sensor age it resolved, if any
    \* ---- the sensor age of a dashboard cycle ----
    lookPc,         \* the cycle's position: idle, searched, exact, regex, done
    lookNow,        \* render_once's now, in minutes
    statusAge,      \* what prefer_devicestatus_metrics resolved from the snapshot
    issued,         \* the Sensor Change queries of the cycle, in the order issued
    sc_ts,          \* what fetch_latest_sensor_change returned, if it ran
    cycleAge,       \* the cycle's sensor_age_min once resolved
    lookups,        \* cycles completed
    \* ---- widget.py, _annotate_events_on_bg ----
    bgRows,         \* entries_df: the glucose samples (time, mmol in tenths), by time
    bolus_list,     \* the boluses handed in, each with its time or none
    carbs_list,     \* the carb intakes handed in, each with its time or none
    cur_ymax,       \* the upper limit of the glucose axis, in tenths of mmol
    ymaxBefore,     \* the upper limit when placement started
    labels,         \* the annotations placed, in the order placed
    annotated,      \* _annotate_events_on_bg has run
    \* ---- widget.py, the display modes and the saved settings ----
    compact,        \* self._compact
    minimal,        \* self._minimal
    chartShown,     \* self.chart_frame is packed
    labelsShown,    \* lbl_sub1, lbl_sub2, lbl_pump and lbl_temp are packed
    netBASE,        \* net.BASE is set
    netAUTH,        \* net.TOKEN or net.SECRET_SHA1 is set
    netSession,     \* net._SESSION holds a session
    immediate,      \* the pending callbacks that were scheduled with delay 0
    applies,        \* apply callbacks of update_data not yet run
    lastApply,      \* what the last apply did: none, text, chart
    saved           \* the last settings save (none, full, partial); old: a thread started before it is still to run

renderVars == <<plotLock, pc, axes, rendered, dropped>>
dashVars == <<dpc, envBASE, envUseDexcom, NOW, clock, srvTreatments, srvStatus,
              cycles, cycNow, cycTreatments, cycFallback, cycBolusIob,
              cycBasalIob, cycCob, dashReports>>
widgetVars == <<wBASE, wAUTH, dexcomOnly, timers, workers, wStatus, wCycles,
                wReports>>
recVars == <<rawTreatments, rawEntries, applied, splitOut, rowsOut, iobOut>>
basalVars == <<plan, temps, gridStart, built, series, asked, current>>
trendVars == <<readings, slope, trendDone, dashArrow, dashSlope, widArrow, widSlope>>
ageVars == <<snapshot, ageDone, sensor_age_min>>
lookupVars == <<lookPc, lookNow, statusAge, issued, sc_ts, cycleAge, lookups>>
labelVars == <<bgRows, bolus_list, carbs_list, cur_ymax, ymaxBefore, labels, annotated>>
modeVars == <<compact, minimal, chartShown, labelsShown, netBASE, netAUTH, netSession, immediate, applies, lastApply, saved>>
vars == <<renderVars, dashVars, widgetVars, recVars, basalVars, trendVars, ageVars, lookupVars, labelVars, modeVars>>

(***************************************************************************)
(* Bounds                                                                  *)
(***************************************************************************)
NumThreads == 3     \* callers of _render_chart
MaxRenders == 2     \* cap on the per-thread history counters
MaxTicks == 5       \* the clock runs over 0 .. MaxTicks half-lives
MaxTreat == 2       \* treatment records held by the server
MaxCycles == 2      \* refresh cycles of one run
MaxTimers == 3      \* pending refresh timers
MaxWorkers == 2     \* update_data threads in flight
MaxWCycles == 3     \* update_data runs of one widget
MaxRecs == 2        \* raw records (treatments and entries) of one query result
MaxTemps == 2       \* temp-basal overlays handed to build_basal_series
GridMinutes == 4    \* minutes between the first and the last instant of the grid
MaxReadings == 2    \* glucose readings of one cycle's window
MaxKeys == 2        \* scalar fields of one device snapshot
MaxLookups == 2     \* dashboard cycles that resolve a sensor age
MaxBoluses == 2     \* boluses handed to _annotate_events_on_bg
MaxCarbs == 2       \* carb intakes handed to _annotate_events_on_bg

Threads == 1..NumThreads

(***************************************************************************)
(* Program constants                                                       *)
(***************************************************************************)
WINDOW_MIN == 360       \* dashboard.py line 59
DIA_MINUTES == 300      \* dashboard.py line 62
T_HALF == 60            \* dashboard.py line 63

(***************************************************************************)
(* Python values, as the JSON records carry them.  ty is the value's type: *)
(*   "none"   the key is absent                                            *)
(*   "null"   the key is present and holds None (JSON null)                *)
(*   "num"    an int or a float; n is the number                           *)
(*   "intstr" a string holding an integer literal, as "30": int() and      *)
(*            float() accept it; n is the number                           *)
(*   "commastr" a string holding a comma decimal, as "2,0": float()        *)
(*            accepts it only once "," is replaced by "."; n is the number *)
(*   "isostr" a string dateutil's isoparse accepts; n is its instant, in   *)
(*            minutes                                                      *)
(*   "str"    any other string; s holds its characters                     *)
(*   "list"   a list of strings; l holds them                              *)
(***************************************************************************)
NoneV == [ty |-> "none", n |-> 0, s |-> <<>>, l |-> <<>>]
Num(x) == [ty |-> "num", n |-> x, s |-> <<>>, l |-> <<>>]
Null == [ty |-> "null", n |-> 0, s |-> <<>>, l |-> <<>>]
IntStr(x) == [ty |-> "intstr", n |-> x, s |-> <<>>, l |-> <<>>]
CommaStr(x) == [ty |-> "commastr", n |-> x, s |-> <<>>, l |-> <<>>]
IsoStr(t) == [ty |-> "isostr", n |-> t, s |-> <<>>, l |-> <<>>]
Str(chars) == [ty |-> "str", n |-> 0, s |-> chars, l |-> <<>>]
List(items) == [ty |-> "list", n |-> 0, s |-> <<>>, l |-> items]

\* bool(v)
Truthy(v) ==
    CASE v.ty \in {"none", "null"} -> FALSE
      [] v.ty = "num" -> v.n # 0
      [] v.ty = "str" -> v.s # <<>>
      [] v.ty = "list" -> v.l # <<>>
      [] OTHER -> TRUE            \* a numeric or ISO string is not empty

\* a or b
Or(a, b) == IF Truthy(a) THEN a ELSE b

\* isinstance(v, (int, float))
IsNumber(v) == v.ty = "num"

\* isinstance(v, str)
IsString(v) == v.ty \in {"str", "intstr", "commastr", "isostr"}

\* v is None: the key is absent or holds null
IsNone(v) == v.ty \in {"none", "null"}

\* float(v.replace(",", ".")) of a string v succeeds
FloatOfReplaced(v) == v.ty \in {"intstr", "commastr"}

\* an instant or None: the result of resolving a record's time
NoTime == [ok |-> FALSE, t |-> 0]
Time(t) == [ok |-> TRUE, t |-> t]

\* dateutil.parser.isoparse(ts_raw) inside try/except Exception: any value
\* that is not an ISO-8601 string raises, and the handler gives None
IsoParse(v) == IF v.ty = "isostr" THEN Time(v.n) ELSE NoTime

\* dt.datetime.fromtimestamp(ms / 1000.0, tz=utc), to the minute
FromMillis(ms) == Time((ms \div 1000) \div 60)

\* the epoch-milliseconds value of an instant given in minutes
Millis(t) == Num(t * 60 * 1000)

(***************************************************************************)
(* Treatment records: the keys the code reads; an absent key is NoneV.     *)
(***************************************************************************)
EmptyRec ==
    [eventType |-> NoneV, type |-> NoneV, tags |-> NoneV,
     created_at |-> NoneV, timestamp |-> NoneV, dateString |-> NoneV,
     mills |-> NoneV, date |-> NoneV,
     duration |-> NoneV, percent |-> NoneV, absolute |-> NoneV,
     carbs |-> NoneV, carb_input |-> NoneV,
     insulin |-> NoneV, insulinInUnits |-> NoneV, amount |-> NoneV,
     units |-> NoneV, value |-> NoneV]

\* the dose keys, in the order the code searches them
DoseKeys == <<"insulin", "insulinInUnits", "amount", "units", "value">>

RECURSIVE Pow2(_)
Pow2(k) == IF k <= 0 THEN 1 ELSE 2 * Pow2(k - 1)

\* IOB values are held in units of 1/IobScale U, so that the decay of a
\* whole-unit dose over whole half-lives is exact
IobScale == Pow2(DIA_MINUTES \div T_HALF)


(***************************************************************************)
(* dashboard.py: time normaliser, fallback bolus IOB, device snapshot      *)
(***************************************************************************)
None_ == [ok |-> FALSE, v |-> 0]
Some(x) == [ok |-> TRUE, v |-> x]

\* split_events lines 267-279 and fallback_bolus_iob lines 457-469: the
\* record's instant.  The epoch-milliseconds keys are read only when no
\* string timestamp is present; a string that does not parse gives None.
TreatmentTime(t) ==
    LET ts_raw == Or(Or(t.created_at, t.timestamp), t.dateString)
        ms == Or(t.mills, t.date)
    IN  IF ~Truthy(ts_raw)
        THEN IF IsNumber(ms) THEN FromMillis(ms.n) ELSE NoTime
        ELSE IsoParse(ts_raw)

\* fallback_bolus_iob._units: the first dose key holding a number or a
\* string float() accepts (records here carry no "bolus" sub-object)
RECURSIVE UnitsFrom(_, _)
UnitsFrom(t, i) ==
    IF i > Len(DoseKeys) THEN None_
    ELSE LET v == t[DoseKeys[i]]
         IN  IF IsNumber(v) THEN Some(v.n)
             ELSE IF FloatOfReplaced(v) THEN Some(v.n)
             ELSE UnitsFrom(t, i + 1)

Units(t) == UnitsFrom(t, 1)

\* 0.5 ** (age_min / T_HALF) of a dose u, in 1/IobScale units
Remaining(u, age_min) == (u * IobScale) \div Pow2(age_min \div T_HALF)

\* the resolved instants of a list of records
TimesOf(treatments) == [i \in DOMAIN treatments |-> TreatmentTime(treatments[i])]

\* the body of the loop of fallback_bolus_iob for one record whose instant
\* resolved to ts, ages being measured against the instant ref
DoseAt_NoWindow(t, ts, ref) ==
    LET u == Units(t)
        age_min == ref - ts.t
    IN  IF ~u.ok \/ u.v <= 0 THEN 0
        ELSE IF ~ts.ok THEN 0
        ELSE IF 0 <= age_min THEN Remaining(u.v, age_min) ELSE 0
DoseAt(t, ts, ref) ==
    LET u == Units(t)
        age_min == ref - ts.t
    IN  IF ~u.ok \/ u.v <= 0 THEN 0
        ELSE IF ~ts.ok THEN 0
        ELSE IF 0 <= age_min /\ age_min <= DIA_MINUTES
             THEN Remaining(u.v, age_min)
             ELSE 0

\* total over the records i .. Len(treatments)
RECURSIVE IobFrom(_, _, _, _)
IobFrom(treatments, times, ref, i) ==
    IF i > Len(treatments) THEN 0
    ELSE DoseAt(treatments[i], times[i], ref) + IobFrom(treatments, times, ref, i + 1)

IobAt(treatments, ref) == IobFrom(treatments, TimesOf(treatments), ref, 1)

\* fallback_bolus_iob(treatments): age_min = (NOW - ts), NOW being the
\* module-level instant of line 43
FallbackBolusIob(treatments) == IobAt(treatments, NOW)

\* the latest device snapshot: its openaps/loop object's iob.iob,
\* iob.basaliob and cob.cob, or no snapshot at all
NoStatus == [present |-> FALSE, iob |-> NoneV, basaliob |-> NoneV, cob |-> NoneV]
Status(i, b, c) == [present |-> TRUE, iob |-> i, basaliob |-> b, cob |-> c]

\* prefer_devicestatus_metrics: cob_g, bolus_iob, basal_iob
PreferDevicestatusMetrics_Total(latest) ==
    LET both == latest.present /\ IsNumber(latest.iob) /\ IsNumber(latest.basaliob)
    IN  [cob_g |-> IF latest.present /\ IsNumber(latest.cob)
                   THEN Some(latest.cob.n) ELSE None_,
         bolus_iob |-> IF both THEN Some(latest.iob.n) ELSE None_,
         basal_iob |-> IF both THEN Some(latest.basaliob.n) ELSE None_]
PreferDevicestatusMetrics(latest) ==
    LET both == latest.present /\ IsNumber(latest.iob) /\ IsNumber(latest.basaliob)
    IN  [cob_g |-> IF latest.present /\ IsNumber(latest.cob)
                   THEN Some(latest.cob.n) ELSE None_,
         bolus_iob |-> IF both THEN Some(latest.iob.n - latest.basaliob.n) ELSE None_,
         basal_iob |-> IF both THEN Some(latest.basaliob.n) ELSE None_]

\* fetch_treatments(since): the server's records with created_at >= since
FetchTreatments(since) ==
    SelectSeq(srvTreatments,
              LAMBDA t : t.created_at.ty = "isostr" /\ t.created_at.n >= since)

(***************************************************************************)
(* dashboard.py: main and render_once                                      *)
(***************************************************************************)
Doses == {1, 2}
StatusSet == {NoStatus,
              Status(Num(3 * IobScale), Num(IobScale), NoneV),
              Status(Num(IobScale), NoneV, Num(20))}

DashQuiet ==
    /\ dpc = "start"
    /\ envBASE = TRUE
    /\ envUseDexcom = FALSE
    /\ NOW = 0
    /\ clock = 0
    /\ srvTreatments = <<>>
    /\ srvStatus = NoStatus
    /\ cycles = 0
    /\ cycNow = 0
    /\ cycTreatments = <<>>
    /\ cycFallback = FALSE
    /\ cycBolusIob = 0
    /\ cycBasalIob = 0
    /\ cycCob = 0
    /\ dashReports = 0

DashInit ==
    /\ dpc = "start"
    /\ envBASE \in BOOLEAN
    /\ envUseDexcom \in BOOLEAN
    /\ NOW = 0
    /\ clock = 0
    /\ srvTreatments = <<>>
    /\ srvStatus = NoStatus
    /\ cycles = 0
    /\ cycNow = 0
    /\ cycTreatments = <<>>
    /\ cycFallback = FALSE
    /\ cycBolusIob = 0
    /\ cycBasalIob = 0
    /\ cycCob = 0
    /\ dashReports = 0

\* time passes, one half-life at a step
Tick ==
    /\ clock + T_HALF <= MaxTicks * T_HALF
    /\ clock' = clock + T_HALF
    /\ UNCHANGED <<dpc, envBASE, envUseDexcom, NOW, srvTreatments, srvStatus,
                   cycles, cycNow, cycTreatments, cycFallback, cycBolusIob,
                   cycBasalIob, cycCob, dashReports>>
    /\ UNCHANGED <<renderVars, widgetVars, recVars, basalVars, trendVars, ageVars, lookupVars, labelVars, modeVars>>

\* a bolus of u units is uploaded to the server at the current instant
PostTreatment(u) ==
    /\ Len(srvTreatments) < MaxTreat
    /\ srvTreatments' = Append(srvTreatments,
           [EmptyRec EXCEPT !.created_at = IsoStr(clock), !.insulin = Num(u)])
    /\ UNCHANGED <<dpc, envBASE, envUseDexcom, NOW, clock, srvStatus,
                   cycles, cycNow, cycTreatments, cycFallback, cycBolusIob,
                   cycBasalIob, cycCob, dashReports>>
    /\ UNCHANGED <<renderVars, widgetVars, recVars, basalVars, trendVars, ageVars, lookupVars, labelVars, modeVars>>

\* the uploader replaces the latest device snapshot
PostStatus(st) ==
    /\ srvStatus # st
    /\ srvStatus' = st
    /\ UNCHANGED <<dpc, envBASE, envUseDexcom, NOW, clock, srvTreatments,
                   cycles, cycNow, cycTreatments, cycFallback, cycBolusIob,
                   cycBasalIob, cycCob, dashReports>>
    /\ UNCHANGED <<renderVars, widgetVars, recVars, basalVars, trendVars, ageVars, lookupVars, labelVars, modeVars>>

\* the process starts: the module is imported (line 43 reads the clock into
\* NOW) and main() runs up to its first render (lines 477-483)
DashStart ==
    /\ dpc = "start"
    /\ NOW' = clock
    /\ IF envUseDexcom THEN dpc' = "exited" /\ dashReports' = dashReports
       ELSE IF ~envBASE THEN dpc' = "failed" /\ dashReports' = dashReports + 1
       ELSE dpc' = "running" /\ dashReports' = dashReports
    /\ UNCHANGED <<envBASE, envUseDexcom, clock, srvTreatments, srvStatus,
                   cycles, cycNow, cycTreatments, cycFallback, cycBolusIob,
                   cycBasalIob, cycCob>>
    /\ UNCHANGED <<renderVars, widgetVars, recVars, basalVars, trendVars, ageVars, lookupVars, labelVars, modeVars>>

\* render_once, lines 492-524: one refresh cycle (the initial render and
\* every FuncAnimation frame)
RenderOnce ==
    /\ dpc = "running"
    /\ cycles < MaxCycles
    /\ LET now == clock
           start == now - WINDOW_MIN
           treatments == FetchTreatments(start)
           m == PreferDevicestatusMetrics(srvStatus)
       IN  /\ cycNow' = now
           /\ cycTreatments' = treatments
           /\ cycFallback' = ~m.bolus_iob.ok
           /\ cycBolusIob' = IF m.bolus_iob.ok THEN m.bolus_iob.v
                             ELSE FallbackBolusIob(treatments)
           /\ cycBasalIob' = IF m.basal_iob.ok THEN m.basal_iob.v ELSE 0
           /\ cycCob' = IF m.cob_g.ok THEN m.cob_g.v ELSE 0
    /\ cycles' = cycles + 1
    /\ UNCHANGED <<dpc, envBASE, envUseDexcom, NOW, clock, srvTreatments,
                   srvStatus, dashReports>>
    /\ UNCHANGED <<renderVars, widgetVars, recVars, basalVars, trendVars, ageVars, lookupVars, labelVars, modeVars>>

\* a carbohydrate entry of g grams is uploaded to the server at the current
\* instant
Grams == {20, 30}
PostCarbs(g) ==
    /\ Len(srvTreatments) < MaxTreat
    /\ srvTreatments' = Append(srvTreatments,
           [EmptyRec EXCEPT !.created_at = IsoStr(clock), !.carbs = Num(g)])
    /\ UNCHANGED <<dpc, envBASE, envUseDexcom, NOW, clock, srvStatus,
                   cycles, cycNow, cycTreatments, cycFallback, cycBolusIob,
                   cycBasalIob, cycCob, dashReports>>
    /\ UNCHANGED <<renderVars, widgetVars, recVars, basalVars, trendVars, ageVars, lookupVars, labelVars, modeVars>>

\* the cycles of a running dashboard at one instant
MetricsNext ==
    \/ \E u \in Doses : PostTreatment(u)
    \/ \E g \in Grams : PostCarbs(g)
    \/ \E st \in StatusSet : PostStatus(st)
    \/ RenderOnce

DashNext ==
    \/ Tick
    \/ \E u \in Doses : PostTreatment(u)
    \/ \E st \in StatusSet : PostStatus(st)
    \/ DashStart
    \/ RenderOnce

(***************************************************************************)
(* widget.py: CGMWidget._render_chart                                      *)
(*                                                                         *)
(*     if self._plot_lock.locked():      -- pc = "check"                   *)
(*         return                                                          *)
(*     with self._plot_lock:             -- pc = "acquire" (blocking)      *)
(*         self.ax1.clear(); ...         -- pc = "clear"                   *)
(*         ... redraw ...                -- pc = "draw", then release      *)
(***************************************************************************)
RenderInit ==
    /\ plotLock = 0                              \* threading.Lock(), line 547
    /\ pc = [t \in Threads |-> "idle"]
    /\ axes = "drawn"
    /\ rendered = [t \in Threads |-> 0]
    /\ dropped = [t \in Threads |-> 0]

\* self._plot_lock.locked()
Locked == plotLock # 0

\* Lock.acquire() of the with statement: blocks until the lock is free
CanAcquire_Held == TRUE
CanAcquire == plotLock = 0

\* the test  if self._plot_lock.locked(): return  as the code makes it
PassesCheck == ~Locked

InSection(t) == pc[t] \in {"clear", "draw"}

\* a render request: apply() calls self._render_chart(*chart_payload)
CallRender(t) ==
    /\ pc[t] = "idle"
    /\ rendered[t] + dropped[t] < MaxRenders
    /\ pc' = [pc EXCEPT ![t] = "check"]
    /\ UNCHANGED <<plotLock, axes, rendered, dropped>>
    /\ UNCHANGED <<dashVars, widgetVars, recVars, basalVars, trendVars, ageVars, lookupVars, labelVars, modeVars>>

\* line 1198-1199: locked -> return without drawing
CheckLockedReturn(t) ==
    /\ pc[t] = "check"
    /\ ~PassesCheck
    /\ pc' = [pc EXCEPT ![t] = "idle"]
    /\ dropped' = [dropped EXCEPT ![t] = @ + 1]
    /\ UNCHANGED <<plotLock, axes, rendered>>
    /\ UNCHANGED <<dashVars, widgetVars, recVars, basalVars, trendVars, ageVars, lookupVars, labelVars, modeVars>>

\* line 1198: not locked -> go on to the with statement
CheckFree(t) ==
    /\ pc[t] = "check"
    /\ PassesCheck
    /\ pc' = [pc EXCEPT ![t] = "acquire"]
    /\ UNCHANGED <<plotLock, axes, rendered, dropped>>
    /\ UNCHANGED <<dashVars, widgetVars, recVars, basalVars, trendVars, ageVars, lookupVars, labelVars, modeVars>>

\* line 1200: with self._plot_lock  (enabled only when the lock is free)
AcquireLock(t) ==
    /\ pc[t] = "acquire"
    /\ CanAcquire
    /\ plotLock' = t
    /\ pc' = [pc EXCEPT ![t] = "clear"]
    /\ UNCHANGED <<axes, rendered, dropped>>
    /\ UNCHANGED <<dashVars, widgetVars, recVars, basalVars, trendVars, ageVars, lookupVars, labelVars, modeVars>>

\* line 1201: self.ax1.clear(); self.ax2.clear()
ClearAxes(t) ==
    /\ pc[t] = "clear"
    /\ axes' = "cleared"
    /\ pc' = [pc EXCEPT ![t] = "draw"]
    /\ UNCHANGED <<plotLock, rendered, dropped>>
    /\ UNCHANGED <<dashVars, widgetVars, recVars, basalVars, trendVars, ageVars, lookupVars, labelVars, modeVars>>

\* lines 1202-1470: redraw, then the with statement releases the lock
DrawAndRelease(t) ==
    /\ pc[t] = "draw"
    /\ axes' = "drawn"
    /\ plotLock' = 0
    /\ pc' = [pc EXCEPT ![t] = "idle"]
    /\ rendered' = [rendered EXCEPT ![t] = @ + 1]
    /\ UNCHANGED dropped
    /\ UNCHANGED <<dashVars, widgetVars, recVars, basalVars, trendVars, ageVars, lookupVars, labelVars, modeVars>>

RenderNext ==
    \E t \in Threads :
        \/ CallRender(t)
        \/ CheckLockedReturn(t)
        \/ CheckFree(t)
        \/ AcquireLock(t)
        \/ ClearAxes(t)
        \/ DrawAndRelease(t)

(***************************************************************************)
(* widget.py: CGMWidget, the update cycle                                  *)
(***************************************************************************)
\* saved: cfg is "full" when the save held an endpoint and a credential;
\* old is TRUE while an update_data thread started before the save has not
\* yet run
NeverSaved == [cfg |-> "none", old |-> FALSE]
ThreadRan(sv, left) == IF left = 0 THEN [sv EXCEPT !.old = FALSE] ELSE sv

WidgetQuiet ==
    /\ wBASE = TRUE
    /\ wAUTH = TRUE
    /\ dexcomOnly = FALSE
    /\ timers = 0
    /\ workers = 0
    /\ wStatus = "init"
    /\ wCycles = 0
    /\ wReports = 0

\* the state CGMWidget.__init__ leaves: schedule_update(0) of line 552 is
\* pending, the labels show their placeholders
WidgetInit ==
    /\ wBASE \in BOOLEAN
    /\ wAUTH \in BOOLEAN
    /\ dexcomOnly \in BOOLEAN
    /\ timers = 1
    /\ workers = 0
    /\ wStatus = "init"
    /\ wCycles = 0
    /\ wReports = 0

\* update_data lines 659-670: the message for a missing endpoint or
\* credential, "" when the configuration is complete
MissingConfig ==
    IF ~wBASE /\ ~dexcomOnly THEN "NIGHTSCOUT_URL fehlt"
    ELSE IF ~wAUTH /\ ~dexcomOnly THEN "Nightscout Auth fehlt"
    ELSE ""

\* update_async, lines 653-656: a pending timer fires, a worker thread is
\* started and the next refresh is scheduled in 60 s
UpdateAsync ==
    /\ timers > 0
    /\ workers < MaxWorkers
    /\ workers' = workers + 1
    /\ timers' = (timers - 1) + 1
    /\ \/ immediate > 0 /\ immediate' = immediate - 1     \* a delay-0 callback fired
       \/ timers > immediate /\ immediate' = immediate    \* a 60 s callback fired
    /\ UNCHANGED <<wBASE, wAUTH, dexcomOnly, wStatus, wCycles, wReports>>
    /\ UNCHANGED <<compact, minimal, chartShown, labelsShown, netBASE, netAUTH,
                   netSession, applies, lastApply, saved>>
    /\ UNCHANGED <<renderVars, dashVars, recVars, basalVars, trendVars, ageVars, lookupVars, labelVars>>

\* update_data, lines 658-670: the cycle stops with a status message when
\* the endpoint or the credential is missing
UpdateDataMissing ==
    /\ workers > 0
    /\ wCycles < MaxWCycles
    /\ MissingConfig # ""
    /\ workers' = workers - 1
    /\ wCycles' = wCycles + 1
    /\ wStatus' = MissingConfig              \* self._set_status(...)
    /\ wReports' = wReports + 1
    /\ saved' = ThreadRan(saved, workers')
    /\ UNCHANGED <<wBASE, wAUTH, dexcomOnly, timers>>
    /\ UNCHANGED <<compact, minimal, chartShown, labelsShown, netBASE, netAUTH,
                   netSession, immediate, applies, lastApply>>
    /\ UNCHANGED <<renderVars, dashVars, recVars, basalVars, trendVars, ageVars, lookupVars, labelVars>>

\* update_data, lines 671-911: the fetch succeeds and the labels are set,
\* or it raises and the error status is shown
UpdateDataFetch(ok) ==
    /\ workers > 0
    /\ wCycles < MaxWCycles
    /\ MissingConfig = ""
    /\ workers' = workers - 1
    /\ wCycles' = wCycles + 1
    /\ wStatus' = IF ok THEN "data"
                  ELSE IF dexcomOnly THEN "Dexcom Fehler" ELSE "Verbindung fehlt"
    \* net.get_json: _ensure_base raises without net.BASE; session() builds
    \* the session when there is none
    /\ ok => (dexcomOnly \/ netBASE)
    /\ netSession' = (netSession \/ (~dexcomOnly /\ netBASE))
    /\ applies' = IF ok THEN applies + 1 ELSE applies      \* root.after(0, apply)
    /\ saved' = ThreadRan(saved, workers')
    /\ UNCHANGED <<wBASE, wAUTH, dexcomOnly, timers, wReports>>
    /\ UNCHANGED <<compact, minimal, chartShown, labelsShown, netBASE, netAUTH,
                   immediate, lastApply>>
    /\ UNCHANGED <<renderVars, dashVars, recVars, basalVars, trendVars, ageVars, lookupVars, labelVars>>

\* the menu entry "Jetzt aktualisieren", line 588: schedule_update(0)
RefreshNow ==
    /\ timers < MaxTimers
    /\ timers' = timers + 1
    /\ immediate' = immediate + 1
    /\ UNCHANGED <<wBASE, wAUTH, dexcomOnly, workers, wStatus, wCycles, wReports>>
    /\ UNCHANGED <<compact, minimal, chartShown, labelsShown, netBASE, netAUTH,
                   netSession, applies, lastApply, saved>>
    /\ UNCHANGED <<renderVars, dashVars, recVars, basalVars, trendVars, ageVars, lookupVars, labelVars>>

WidgetNext ==
    \/ UpdateAsync
    \/ UpdateDataMissing
    \/ \E ok \in BOOLEAN : UpdateDataFetch(ok)
    \/ RefreshNow

(***************************************************************************)
(* Strings, as sequences of characters                                     *)
(***************************************************************************)
UpperCase == <<"A","B","C","D","E","F","G","H","I","J","K","L","M",
               "N","O","P","Q","R","S","T","U","V","W","X","Y","Z">>
LowerCase == <<"a","b","c","d","e","f","g","h","i","j","k","l","m",
               "n","o","p","q","r","s","t","u","v","w","x","y","z">>

LowerChar(c) ==
    IF \E i \in DOMAIN UpperCase : UpperCase[i] = c
    THEN LowerCase[CHOOSE i \in DOMAIN UpperCase : UpperCase[i] = c]
    ELSE c

\* str.lower()
LowerStr(chars) == [i \in 1..Len(chars) |-> LowerChar(chars[i])]

\* sub in chars
Contains(chars, sub) ==
    \E i \in 1..(Len(chars) - Len(sub) + 1) : SubSeq(chars, i, i + Len(sub) - 1) = sub

\* the characters of a string value (a numeric or ISO string holds no letters
\* the classifier looks for)
Chars(v) == IF v.ty = "str" THEN v.s ELSE <<"0">>

sTempBasal == <<"T","e","m","p"," ","B","a","s","a","l">>
sTEMP_BASAL == <<"T","E","M","P"," ","B","A","S","A","L">>
sGarbage == <<"n","/","a">>
sSMB == <<"S","M","B">>
sAutoSmb == <<"A","u","t","o","-","S","m","b">>
sBolus == <<"C","o","r","r","e","c","t","i","o","n"," ","B","o","l","u","s">>
temp_basal == <<"t","e","m","p"," ","b","a","s","a","l">>
smb == <<"s","m","b">>

(***************************************************************************)
(* dashboard.py: split_events                                              *)
(***************************************************************************)
\* (t.get(k) or "").lower(), lines 264-265: a truthy value that is no string
\* has no lower() and raises AttributeError
LowerRaises(v) == Truthy(v) /\ ~IsString(v)
LowerText(v) == IF Truthy(v) THEN LowerStr(Chars(v)) ELSE <<>>

\* [str(x).lower() for x in (t.get("tags") or [])], line 266: a number is not
\* iterable (TypeError); a string is iterated character by character
TagsRaises(v) == Truthy(v) /\ v.ty = "num"
TagList(v) ==
    IF v.ty = "list" THEN [i \in 1..Len(v.l) |-> LowerStr(v.l[i])]
    ELSE IF Truthy(v) /\ IsString(v)
         THEN [i \in 1..Len(Chars(v)) |-> <<LowerChar(Chars(v)[i])>>]
         ELSE <<>>

\* int(t.get("duration", 0)), line 285: an absent key gives 0; null, a list
\* (TypeError) and a string that is no integer literal (ValueError) raise
IntRaises(v) == v.ty \in {"null", "list", "str", "commastr", "isostr"}
IntOf(v) == IF v.ty = "none" THEN 0 ELSE v.n

\* a float that may be NaN
NaN == [isnan |-> TRUE, v |-> 0]
Fl(x) == [isnan |-> FALSE, v |-> x]

\* float(t.get(k, np.nan)) if t.get(k) is not None else np.nan, lines 286-287:
\* float() takes no comma decimal and no other text (ValueError), no list
FloatRaises(v) == v.ty \in {"list", "str", "commastr", "isostr"}
FloatOrNaN(v) == IF IsNone(v) THEN NaN ELSE Fl(v.n)

\* what split_events makes of its records: the four lists, or a raised fault
NoEvents == [raised |-> FALSE, bolus_big |-> <<>>, bolus_mini |-> <<>>,
             carbs |-> <<>>, temps |-> <<>>]
Raised == [raised |-> TRUE, bolus_big |-> <<>>, bolus_mini |-> <<>>,
           carbs |-> <<>>, temps |-> <<>>]

\* is_smb, line 308
IsSmb_ExactType(et, t_type, tags) == t_type = smb
IsSmb(et, t_type, tags) ==
    \/ t_type = smb
    \/ Contains(t_type, smb)
    \/ \E i \in 1..Len(tags) : Contains(tags[i], smb)
    \/ Contains(et, smb)

\* the loop body of split_events, lines 264-313, for a record t whose instant
\* resolved to ts
ClassifyRecord(t, ts) ==
    LET et == LowerText(t.eventType)
        t_type == LowerText(t.type)
        tags == TagList(t.tags)
        carbs_val == Or(t.carbs, t.carb_input)
        units == UnitsFrom(t, 1)
        is_smb == IsSmb(et, t_type, tags)
        bolus == IF units.ok /\ units.v > 0
                 THEN <<[time |-> ts.t, units |-> units.v, is_smb |-> is_smb]>>
                 ELSE <<>>
    IN  IF LowerRaises(t.eventType) \/ LowerRaises(t.type) \/ TagsRaises(t.tags)
        THEN Raised
        ELSE IF ~ts.ok THEN NoEvents                        \* continue
        ELSE IF et = temp_basal
        THEN IF IntRaises(t.duration) \/ FloatRaises(t.percent)
                \/ FloatRaises(t.absolute)
             THEN Raised
             ELSE [NoEvents EXCEPT !.temps =
                      <<[start |-> ts.t, duration |-> IntOf(t.duration),
                         percent |-> FloatOrNaN(t.percent),
                         absolute |-> FloatOrNaN(t.absolute)]>>]
        ELSE [NoEvents EXCEPT
                !.carbs = IF IsNumber(carbs_val) /\ carbs_val.n > 0
                          THEN <<[time |-> ts.t, grams |-> carbs_val.n]>>
                          ELSE <<>>,
                !.bolus_big = IF is_smb THEN <<>> ELSE bolus,
                !.bolus_mini = IF is_smb THEN bolus ELSE <<>>]

\* the lists of one record followed by those of the later records; a fault
\* raised by any record leaves the caller without lists
Combine(a, b) ==
    IF a.raised \/ b.raised THEN Raised
    ELSE [raised |-> FALSE,
          bolus_big |-> a.bolus_big \o b.bolus_big,
          bolus_mini |-> a.bolus_mini \o b.bolus_mini,
          carbs |-> a.carbs \o b.carbs,
          temps |-> a.temps \o b.temps]

\* the loop of split_events over the records i .. Len(trs)
RECURSIVE SplitFrom(_, _, _)
SplitFrom(trs, times, i) ==
    IF i > Len(trs) THEN NoEvents
    ELSE Combine(ClassifyRecord(trs[i], times[i]), SplitFrom(trs, times, i + 1))

SplitEvents(trs) == SplitFrom(trs, TimesOf(trs), 1)

(***************************************************************************)
(* dashboard.py: fetch_entries                                             *)
(***************************************************************************)
EmptyEntry ==
    [sgv |-> NoneV, mbg |-> NoneV, glucose |-> NoneV, direction |-> NoneV,
     dateString |-> NoneV, created_at |-> NoneV, date |-> NoneV]

\* lines 84-94: the entry's instant; "date" is read only when no string
\* timestamp is present
EntryTime(e) ==
    LET ts_raw == Or(e.dateString, e.created_at)
    IN  IF Truthy(ts_raw) THEN IsoParse(ts_raw)
        ELSE IF IsNumber(e.date) THEN FromMillis(e.date.n) ELSE NoTime

EntryTimesOf(es) == [i \in DOMAIN es |-> EntryTime(es[i])]

\* lines 80-97: the row of one entry, if it gives one
EntryRow(e, ts) ==
    LET val == Or(Or(e.sgv, e.mbg), e.glucose)
    IN  IF ~IsNumber(val) THEN <<>>
        ELSE IF ~ts.ok THEN <<>>
        ELSE <<[time |-> ts.t, mgdl |-> val.n, direction |-> e.direction]>>

\* sort_values("time"), line 100
RECURSIVE SortByTime(_)
Insert(row, rows) ==
    LET before == SelectSeq(rows, LAMBDA r : r.time <= row.time)
        after == SelectSeq(rows, LAMBDA r : r.time > row.time)
    IN  before \o <<row>> \o after
SortByTime(rows) ==
    IF rows = <<>> THEN <<>>
    ELSE Insert(rows[Len(rows)], SortByTime(SubSeq(rows, 1, Len(rows) - 1)))

RECURSIVE RowsFrom(_, _, _)
RowsFrom(es, times, i) ==
    IF i > Len(es) THEN <<>>
    ELSE EntryRow(es[i], times[i]) \o RowsFrom(es, times, i + 1)

FetchEntries(es) == SortByTime(RowsFrom(es, EntryTimesOf(es), 1))

(***************************************************************************)
(* The functions applied to raw query results                              *)
(***************************************************************************)
TMs == T_HALF           \* the instant the records' epoch-milliseconds fields name
TStr == 2 * T_HALF      \* the instant their string timestamps name
RecNow == 3 * T_HALF    \* the instant the results are computed at

StringTimes == {NoneV, IsoStr(TStr), Str(sGarbage)}
MilliTimes == {NoneV, Millis(TMs), Str(sGarbage)}

\* records that differ in their timestamp fields
TimePool ==
    {[EmptyRec EXCEPT !.created_at = c, !.mills = m, !.carbs = k[1], !.insulin = k[2]] :
        c \in StringTimes, m \in MilliTimes,
        k \in {<<Num(20), NoneV>>, <<NoneV, Num(2)>>}}
    \cup {[EmptyRec EXCEPT !.dateString = IsoStr(TStr), !.insulin = Num(2)],
          [EmptyRec EXCEPT !.date = Millis(TMs), !.insulin = Num(2)]}

\* records with a field of a wrong type, and temp-basal records
TypePool ==
    {[EmptyRec EXCEPT !.created_at = IsoStr(TStr), !.carbs = Num(20), ![f] = Num(5)] :
        f \in {"eventType", "type", "tags"}}
    \cup {[EmptyRec EXCEPT !.created_at = IsoStr(TStr), !.eventType = Str(sTempBasal),
                           !.duration = d, !.percent = pct] :
            d \in {NoneV, Null, Num(30)}, pct \in {Num(50), CommaStr(50)}}
    \cup {[EmptyRec EXCEPT !.created_at = IsoStr(TStr), !.eventType = Str(sTEMP_BASAL),
                           !.absolute = Num(20), !.carbs = Num(20), !.insulin = Num(2)]}

RecPool == TimePool \cup TypePool

EntryPool ==
    {[EmptyEntry EXCEPT !.sgv = Num(100), !.dateString = c, !.date = m] :
        c \in StringTimes, m \in MilliTimes}
    \cup {[EmptyEntry EXCEPT !.sgv = IntStr(100), !.dateString = IsoStr(TStr)]}

RecQuiet ==
    /\ rawTreatments = <<>>
    /\ rawEntries = <<>>
    /\ applied = {}
    /\ splitOut = NoEvents
    /\ rowsOut = <<>>
    /\ iobOut = 0

\* the treatments query returns one more record
LoadTreatment(t) ==
    /\ applied = {}
    /\ Len(rawTreatments) + Len(rawEntries) < MaxRecs
    /\ rawTreatments' = Append(rawTreatments, t)
    /\ UNCHANGED <<rawEntries, applied, splitOut, rowsOut, iobOut>>
    /\ UNCHANGED <<renderVars, dashVars, widgetVars, basalVars, trendVars, ageVars, lookupVars, labelVars, modeVars>>

\* the entries query returns one more record
LoadEntry(e) ==
    /\ applied = {}
    /\ Len(rawTreatments) + Len(rawEntries) < MaxRecs
    /\ rawEntries' = Append(rawEntries, e)
    /\ UNCHANGED <<rawTreatments, applied, splitOut, rowsOut, iobOut>>
    /\ UNCHANGED <<renderVars, dashVars, widgetVars, basalVars, trendVars, ageVars, lookupVars, labelVars, modeVars>>

\* split_events(treatments)
ApplySplitEvents ==
    /\ "split" \notin applied
    /\ applied' = applied \cup {"split"}
    /\ splitOut' = SplitEvents(rawTreatments)
    /\ UNCHANGED <<rawTreatments, rawEntries, rowsOut, iobOut>>
    /\ UNCHANGED <<renderVars, dashVars, widgetVars, basalVars, trendVars, ageVars, lookupVars, labelVars, modeVars>>

\* fetch_entries(since), on the records the query returned
ApplyFetchEntries ==
    /\ "rows" \notin applied
    /\ applied' = applied \cup {"rows"}
    /\ rowsOut' = FetchEntries(rawEntries)
    /\ UNCHANGED <<rawTreatments, rawEntries, splitOut, iobOut>>
    /\ UNCHANGED <<renderVars, dashVars, widgetVars, basalVars, trendVars, ageVars, lookupVars, labelVars, modeVars>>

\* fallback_bolus_iob(treatments)
ApplyFallbackIob ==
    /\ "iob" \notin applied
    /\ applied' = applied \cup {"iob"}
    /\ iobOut' = FallbackBolusIob(rawTreatments)
    /\ UNCHANGED <<rawTreatments, rawEntries, splitOut, rowsOut>>
    /\ UNCHANGED <<renderVars, dashVars, widgetVars, basalVars, trendVars, ageVars, lookupVars, labelVars, modeVars>>

RecNext ==
    \/ \E t \in RecPool : LoadTreatment(t)
    \/ \E e \in EntryPool : LoadEntry(e)
    \/ ApplySplitEvents
    \/ ApplyFetchEntries
    \/ ApplyFallbackIob

\* ---- split_events on well-typed records that differ in their carbohydrate,
\* ---- dose and kind fields
CarbFields ==
    {<<NoneV, NoneV>>, <<Num(20), NoneV>>, <<NoneV, Num(30)>>,
     <<Num(0), Num(30)>>, <<IntStr(20), Num(30)>>}

\* values of insulin and amount
DoseFields ==
    {<<NoneV, NoneV>>, <<Num(2), NoneV>>, <<NoneV, Num(3)>>, <<Num(0), Num(3)>>,
     <<CommaStr(2), Num(3)>>, <<Str(sGarbage), Num(3)>>}

\* values of eventType, type and tags
KindFields ==
    {<<NoneV, NoneV, NoneV>>,
     <<Str(sBolus), NoneV, NoneV>>,
     <<Str(sSMB), NoneV, NoneV>>,
     <<Str(sBolus), Str(smb), NoneV>>,
     <<Str(sBolus), NoneV, List(<<sBolus, sAutoSmb>>)>>}

ClassPool ==
    {[EmptyRec EXCEPT !.created_at = IsoStr(TStr), !.carbs = c[1], !.carb_input = c[2],
                      !.insulin = d[1]] :
        c \in CarbFields, d \in {<<NoneV>>, <<Num(2)>>}}
    \cup {[EmptyRec EXCEPT !.created_at = IsoStr(TStr), !.insulin = d[1], !.amount = d[2],
                           !.eventType = k[1], !.type = k[2], !.tags = k[3]] :
            d \in DoseFields, k \in KindFields}
    \cup {[EmptyRec EXCEPT !.created_at = IsoStr(TStr), !.eventType = Str(sTEMP_BASAL),
                           !.absolute = Num(20), !.carbs = Num(20), !.insulin = Num(2)]}

ClassNext ==
    \/ \E t \in ClassPool : LoadTreatment(t)
    \/ ApplySplitEvents

\* ---- fallback_bolus_iob on doses of different ages
DecayNow == DIA_MINUTES + T_HALF    \* the instant the estimate is computed at

\* doses given DIA + one half-life, DIA and less than DIA before DecayNow, at
\* DecayNow and after it
DecayPool ==
    {[EmptyRec EXCEPT !.created_at = IsoStr(ts), !.insulin = Num(u)] :
        ts \in {0, T_HALF, 2 * T_HALF, DecayNow, DecayNow + T_HALF}, u \in Doses}

DecayNext ==
    \/ \E t \in DecayPool : LoadTreatment(t)
    \/ ApplyFallbackIob

(***************************************************************************)
(* dashboard.py: current_plan_basal and build_basal_series                 *)
(* Instants are local seconds; rates are hundredths of a unit per hour.    *)
(***************************************************************************)
DAY == 86400    \* seconds of a day: hour * 3600 + minute * 60 + second
MINUTE == 60    \* seconds of the grid's step, freq="1min"

\* sorted(plan)
RECURSIVE Sorted(_)
Sorted(S) ==
    IF S = {} THEN <<>>
    ELSE LET m == CHOOSE x \in S : \A y \in S : x <= y
         IN  <<m>> \o Sorted(S \ {m})

\* local.hour * 3600 + local.minute * 60 + local.second, line 202
SecondsOfDay(t) == t % DAY

\* the test of the loop, line 205
Started_Strict(k, secs) == k < secs
Started(k, secs) == k <= secs

\* the loop of lines 204-208 from the i-th key on
RECURSIVE Scan(_, _, _, _, _)
Scan(p, keys, secs, i, cur) ==
    IF i > Len(keys) THEN cur
    ELSE IF Started(keys[i], secs) THEN Scan(p, keys, secs, i + 1, Some(p[keys[i]]))
    ELSE cur                                                \* break

CurrentPlanBasal(p, t) ==
    IF DOMAIN p = {} THEN None_
    ELSE LET keys == Sorted(DOMAIN p)
             cur == Scan(p, keys, SecondsOfDay(t), 1, None_)
         IN  IF ~cur.ok THEN Some(p[keys[Len(keys)]]) ELSE cur

\* plan_at, lines 322-323: current_plan_basal(...) or 0.0
PlanAt(p, t) ==
    LET c == CurrentPlanBasal(p, t)
    IN  IF c.ok /\ c.v # 0 THEN c.v ELSE 0

\* pd.date_range(start, end, freq="1min"), line 319
Grid(s, e) == [k \in 1..((e - s) \div MINUTE + 1) |-> s + MINUTE * (k - 1)]

\* df["actual_u_per_h"] = df["plan_u_per_h"].values, line 325
InitialActual_Zero(planCol) == [k \in DOMAIN planCol |-> 0]
InitialActual(planCol) == planCol

\* the mask of line 331
InWindow_Closed(m, temp) ==
    m >= temp.start /\ m <= temp.start + MINUTE * temp.duration
InWindow(m, temp) ==
    m >= temp.start /\ m < temp.start + MINUTE * temp.duration

\* lines 333-336: the rate an overlay gives a masked minute whose plan rate
\* is planRate and whose rate so far is actual
OverlayRate_PercentFirst(temp, planRate, actual) ==
    IF ~temp.percent.isnan THEN (planRate * temp.percent.v) \div 100
    ELSE IF ~temp.absolute.isnan THEN temp.absolute.v
    ELSE actual
OverlayRate(temp, planRate, actual) ==
    IF ~temp.absolute.isnan THEN temp.absolute.v
    ELSE IF ~temp.percent.isnan THEN (planRate * temp.percent.v) \div 100
    ELSE actual

\* the body of the loop of lines 328-336 for one overlay
ApplyTemp(idx, planCol, actualCol, temp) ==
    [k \in DOMAIN idx |->
        IF InWindow(idx[k], temp)
        THEN OverlayRate(temp, planCol[k], actualCol[k])
        ELSE actualCol[k]]

\* the loop over the overlays i .. Len(ts), in list order
RECURSIVE ApplyTemps_FirstWins(_, _, _, _, _)
ApplyTemps_FirstWins(idx, planCol, actualCol, ts, i) ==
    IF i > Len(ts) THEN actualCol
    ELSE ApplyTemp(idx, planCol,
                   ApplyTemps_FirstWins(idx, planCol, actualCol, ts, i + 1), ts[i])
RECURSIVE ApplyTemps(_, _, _, _, _)
ApplyTemps(idx, planCol, actualCol, ts, i) ==
    IF i > Len(ts) THEN actualCol
    ELSE ApplyTemps(idx, planCol, ApplyTemp(idx, planCol, actualCol, ts[i]), ts, i + 1)

BuildBasalSeries(p, ts, s, e) ==
    LET idx == Grid(s, e)
        planCol == [k \in DOMAIN idx |-> PlanAt(p, idx[k])]
        actualCol == ApplyTemps(idx, planCol, InitialActual(planCol), ts, 1)
    IN  [k \in DOMAIN idx |->
            [t |-> idx[k], plan_u_per_h |-> planCol[k],
             actual_u_per_h |-> actualCol[k],
             is_temp |-> actualCol[k] # planCol[k]]]

\* ---- inputs ----
HOUR == 60 * MINUTE
NoPlan == [k \in {} |-> 0]
PlanPool ==
    {NoPlan,
     [k \in {0} |-> 100],
     (0 :> 100) @@ (HOUR :> 80),
     (HOUR :> 80) @@ (2 * HOUR :> 100),
     (0 :> 100) @@ (HOUR :> 80) @@ (2 * HOUR :> 60)}

\* grids that cross a segment start, and midnight
StartPool == {HOUR - 2 * MINUTE, DAY - 2 * MINUTE}
gridEnd == gridStart + MINUTE * GridMinutes

\* overlays starting on and between grid instants, by their offset from the
\* first instant of the grid
TempPool ==
    {[start |-> off, duration |-> d, percent |-> pct, absolute |-> a] :
        off \in {MINUTE, MINUTE + 30}, d \in {0, 2},
        pct \in {NaN, Fl(50)}, a \in {NaN, Fl(20)}}

\* instants current_plan_basal is asked about
AskPool == {0, HOUR - 1, HOUR, HOUR + 1, 2 * HOUR, DAY - 1, DAY + HOUR}

BasalQuiet ==
    /\ plan = NoPlan
    /\ temps = <<>>
    /\ gridStart = 0
    /\ built = FALSE
    /\ series = <<>>
    /\ asked = None_
    /\ current = None_

BasalInit ==
    /\ plan \in PlanPool
    /\ temps = <<>>
    /\ gridStart \in StartPool
    /\ built = FALSE
    /\ series = <<>>
    /\ asked = None_
    /\ current = None_

\* split_events hands over one more overlay
AddTemp(temp) ==
    /\ ~built
    /\ Len(temps) < MaxTemps
    /\ temps' = Append(temps, [temp EXCEPT !.start = gridStart + temp.start])
    /\ UNCHANGED <<plan, gridStart, built, series, asked, current>>
    /\ UNCHANGED <<renderVars, dashVars, widgetVars, recVars, trendVars, ageVars, lookupVars, labelVars, modeVars>>

\* current_plan_basal(plan, t)
AskPlan(t) ==
    /\ ~asked.ok
    /\ asked' = Some(t)
    /\ current' = CurrentPlanBasal(plan, t)
    /\ UNCHANGED <<plan, temps, gridStart, built, series>>
    /\ UNCHANGED <<renderVars, dashVars, widgetVars, recVars, trendVars, ageVars, lookupVars, labelVars, modeVars>>

\* build_basal_series(plan, temps, start, end)
Build ==
    /\ ~built
    /\ built' = TRUE
    /\ series' = BuildBasalSeries(plan, temps, gridStart, gridEnd)
    /\ UNCHANGED <<plan, temps, gridStart, asked, current>>
    /\ UNCHANGED <<renderVars, dashVars, widgetVars, recVars, trendVars, ageVars, lookupVars, labelVars, modeVars>>

BasalNext ==
    \/ \E temp \in TempPool : AddTemp(temp)
    \/ \E t \in AskPool : AskPlan(t)
    \/ Build

(***************************************************************************)
(* The trend arrow: dashboard.py direction_arrow_from_text and render_once *)
(* lines 541-546; widget.py direction_arrow and update_data lines 732,     *)
(* 787-789.  Arrows are named by compass points: "E" flat, "NE" and "SE"   *)
(* the 45-degree arrows, "N" and "S" single, "NN" and "SS" double, ""      *)
(* the empty arrow.                                                        *)
(***************************************************************************)
\* an Optional[str] arrow: None, or the arrow a
NoArrow == [ok |-> FALSE, v |-> ""]
Arrow(a) == [ok |-> TRUE, v |-> a]

mapping ==
    <<[text |-> <<"f","l","a","t">>, arrow |-> "E"],
      [text |-> <<"f","o","r","t","y","f","i","v","e","u","p">>, arrow |-> "NE"],
      [text |-> <<"f","o","r","t","y","f","i","v","e","d","o","w","n">>, arrow |-> "SE"],
      [text |-> <<"s","i","n","g","l","e","u","p">>, arrow |-> "N"],
      [text |-> <<"s","i","n","g","l","e","d","o","w","n">>, arrow |-> "S"],
      [text |-> <<"d","o","u","b","l","e","u","p">>, arrow |-> "NN"],
      [text |-> <<"d","o","u","b","l","e","d","o","w","n">>, arrow |-> "SS"],
      [text |-> <<"n","o","n","e">>, arrow |-> ""]>>

\* mapping.get(d)
MappingGet(d) ==
    IF \E i \in DOMAIN mapping : mapping[i].text = d
    THEN Arrow(mapping[CHOOSE i \in DOMAIN mapping : mapping[i].text = d].arrow)
    ELSE NoArrow

\* dashboard.py direction_arrow_from_text
DirectionArrowFromText(dir_text) ==
    IF ~Truthy(dir_text) THEN NoArrow
    ELSE MappingGet(LowerStr(Chars(dir_text)))

\* widget.py direction_arrow: {...}.get((dir_text or "").lower(), "")
DirectionArrow(dir_text) ==
    LET a == MappingGet(LowerText(dir_text))
    IN  IF a.ok THEN a.v ELSE ""

\* entries["direction"].dropna(), line 543
DropNa(dirs) == SelectSeq(dirs, LAMBDA v : ~IsNone(v))

sFlat == <<"F","l","a","t">>
sNONE == <<"N","O","N","E">>
sSingleUp == <<"S","i","n","g","l","e","U","p">>
sNotComputable == <<"N","O","T"," ","C","O","M","P","U","T","A","B","L","E">>
DirPool == {NoneV, Str(sFlat), Str(sNONE), Str(sSingleUp), Str(sNotComputable)}
SlopePool == {NoArrow, Arrow("E"), Arrow("S")}

TrendQuiet ==
    /\ readings = <<>>
    /\ slope = NoArrow
    /\ trendDone = {}
    /\ dashArrow = NoArrow
    /\ dashSlope = FALSE
    /\ widArrow = NoArrow
    /\ widSlope = FALSE

TrendInit ==
    /\ readings = <<>>
    /\ slope \in SlopePool
    /\ trendDone = {}
    /\ dashArrow = NoArrow
    /\ dashSlope = FALSE
    /\ widArrow = NoArrow
    /\ widSlope = FALSE

\* the entries query returns one more reading, with direction field dir
LoadReading(dir) ==
    /\ trendDone = {}
    /\ Len(readings) < MaxReadings
    /\ readings' = Append(readings, dir)
    /\ UNCHANGED <<slope, trendDone, dashArrow, dashSlope, widArrow, widSlope>>
    /\ UNCHANGED <<renderVars, dashVars, widgetVars, recVars, basalVars, ageVars, lookupVars, labelVars, modeVars>>

\* render_once, lines 541-546
DashArrow ==
    /\ "dash" \notin trendDone
    /\ readings # <<>>
    /\ LET dirs == DropNa(readings)
           last_dir == IF dirs = <<>> THEN NoneV ELSE dirs[Len(dirs)]
           current_direction == DirectionArrowFromText(last_dir)
       IN  /\ dashSlope' = ~current_direction.ok
           /\ dashArrow' = IF current_direction.ok THEN current_direction ELSE slope
    /\ trendDone' = trendDone \cup {"dash"}
    /\ UNCHANGED <<readings, slope, widArrow, widSlope>>
    /\ UNCHANGED <<renderVars, dashVars, widgetVars, recVars, basalVars, ageVars, lookupVars, labelVars, modeVars>>

\* update_data, lines 732 and 787-789 (dashboard helpers available, not
\* Dexcom-only): entry is the latest reading
WidgetArrow ==
    /\ "widget" \notin trendDone
    /\ readings # <<>>
    /\ LET entry == readings[Len(readings)]
           arrow == DirectionArrow(entry)
           fromText == DirectionArrowFromText(entry)
       IN  IF arrow # ""
           THEN widArrow' = Arrow(arrow) /\ widSlope' = FALSE
           ELSE IF fromText.ok /\ fromText.v # ""
                THEN widArrow' = fromText /\ widSlope' = FALSE
                ELSE widArrow' = slope /\ widSlope' = TRUE
    /\ trendDone' = trendDone \cup {"widget"}
    /\ UNCHANGED <<readings, slope, dashArrow, dashSlope>>
    /\ UNCHANGED <<renderVars, dashVars, widgetVars, recVars, basalVars, ageVars, lookupVars, labelVars, modeVars>>

TrendNext ==
    \/ \E dir \in DirPool : LoadReading(dir)
    \/ DashArrow
    \/ WidgetArrow

(***************************************************************************)
(* dashboard.py prefer_devicestatus_metrics._extract_ages, lines 402-424   *)
(* (widget.py metrics_from_status._extract_ages, lines 287-307, is the     *)
(* same traversal).  A JSON value is [ty, n, kids]: ty "num" a number n,   *)
(* "commastr" a string holding the comma decimal n, "str" any other        *)
(* string, "dict" an object whose kids are its [k, v] items in key order,  *)
(* "list" an array whose kids are its elements.                            *)
(***************************************************************************)
DepthBound == 6

JNum(x) == [ty |-> "num", n |-> x, kids |-> <<>>]
JCommaStr(x) == [ty |-> "commastr", n |-> x, kids |-> <<>>]
JStr == [ty |-> "str", n |-> 0, kids |-> <<>>]
\* a string float() reads as nan or inf: "nan", "inf", "1e999"
JNonFinite == [ty |-> "nonfinite", n |-> 0, kids |-> <<>>]
\* true and false, instances of int with the values 1 and 0
JBool(b) == [ty |-> "bool", n |-> IF b THEN 1 ELSE 0, kids |-> <<>>]
JDict(items) == [ty |-> "dict", n |-> 0, kids |-> items]
JList(elems) == [ty |-> "list", n |-> 0, kids |-> elems]

sage == <<"s","a","g","e">>
sensorage == <<"s","e","n","s","o","r","a","g","e">>

\* kl in ("sage", "sensorage"), with kl = str(k).lower()
KeyMatches(k) == LowerStr(k) \in {sage, sensorage}

\* v after the coercion of lines 410-415 is an int or a float
CoercedNumber(v) == v.ty \in {"num", "commastr", "nonfinite", "bool"}

\* int(v) of line 417 raises ValueError on nan and OverflowError on inf
AgeIntRaises(v) == v.ty = "nonfinite"

\* the test of line 416
Takes(found, k, v) == KeyMatches(k) /\ ~found.ok /\ CoercedNumber(v)

\* _extract_ages(obj, depth) with sensor_age_min = acc.found on entry; the
\* loops of lines 407-421 and 422-424 from the i-th item or element on. An
\* exception of line 417 leaves every loop of the traversal (acc.raised).
NothingFound == [found |-> None_, raised |-> FALSE]
RECURSIVE ExtractAges(_, _, _)
RECURSIVE ExtractItems(_, _, _, _)
RECURSIVE ExtractElems(_, _, _, _)
ExtractItems(items, i, depth, acc) ==
    IF acc.raised \/ i > Len(items) THEN acc
    ELSE LET k == items[i].k
             v == items[i].v
             taken == IF ~Takes(acc.found, k, v) THEN acc
                      ELSE IF AgeIntRaises(v) THEN [acc EXCEPT !.raised = TRUE]
                      ELSE [acc EXCEPT !.found = Some(v.n)]
             below == IF v.ty \in {"dict", "list"} /\ ~taken.raised
                      THEN ExtractAges(v, depth + 1, taken) ELSE taken
         IN  ExtractItems(items, i + 1, depth, below)
ExtractElems(elems, i, depth, acc) ==
    IF acc.raised \/ i > Len(elems) THEN acc
    ELSE ExtractElems(elems, i + 1, depth, ExtractAges(elems[i], depth + 1, acc))
ExtractAges(obj, depth, acc) ==
    IF depth > DepthBound THEN acc
    ELSE IF obj.ty = "dict" THEN ExtractItems(obj.kids, 1, depth, acc)
    ELSE IF obj.ty = "list" THEN ExtractElems(obj.kids, 1, depth, acc)
    ELSE acc

\* ---- inputs ----
sSAGE == <<"S","A","G","E">>
sSensorAge == <<"S","e","n","s","o","r","A","g","e">>
sIage == <<"i","a","g","e">>
sPump == <<"p","u","m","p">>
FieldPool ==
    {[k |-> sage, v |-> JNum(10)],
     [k |-> sSensorAge, v |-> JCommaStr(20)],
     [k |-> sSAGE, v |-> JStr],
     [k |-> sage, v |-> JNonFinite],
     [k |-> sensorage, v |-> JBool(TRUE)],
     [k |-> sIage, v |-> JNum(30)]}

\* the nesting depth of the deepest object or array of obj, obj being at d
RECURSIVE Deepest(_, _)
Deepest(obj, d) ==
    LET below == {Deepest(IF obj.ty = "dict" THEN obj.kids[i].v ELSE obj.kids[i], d + 1) :
                    i \in DOMAIN obj.kids}
    IN  IF obj.ty \notin {"dict", "list"} THEN d - 1
        ELSE CHOOSE m \in below \cup {d} : \A x \in below \cup {d} : x <= m

\* the scalar fields and the arrays of obj
RECURSIVE Count(_, _)
Count(obj, types) ==
    LET sub == [i \in DOMAIN obj.kids |->
                  Count(IF obj.ty = "dict" THEN obj.kids[i].v ELSE obj.kids[i], types)]
        Sum[i \in 0..Len(obj.kids)] == IF i = 0 THEN 0 ELSE Sum[i - 1] + sub[i]
    IN  (IF obj.ty \in types THEN 1 ELSE 0) + Sum[Len(obj.kids)]

AgeQuiet ==
    /\ snapshot = JDict(<<>>)
    /\ ageDone = FALSE
    /\ sensor_age_min = None_

\* the uploader writes one more field at the end of the snapshot
AddField(item) ==
    /\ ~ageDone
    /\ Count(snapshot, {"num", "commastr", "str", "nonfinite", "bool"}) < MaxKeys
    /\ snapshot' = JDict(Append(snapshot.kids, item))
    /\ UNCHANGED <<ageDone, sensor_age_min>>
    /\ UNCHANGED <<renderVars, dashVars, widgetVars, recVars, basalVars, trendVars, lookupVars, labelVars, modeVars>>

\* the uploader reports what it has under a "pump" object
NestInObject ==
    /\ ~ageDone
    /\ Deepest(snapshot, 0) + 1 <= DepthBound + 1
    /\ snapshot' = JDict(<<[k |-> sPump, v |-> snapshot]>>)
    /\ UNCHANGED <<ageDone, sensor_age_min>>
    /\ UNCHANGED <<renderVars, dashVars, widgetVars, recVars, basalVars, trendVars, lookupVars, labelVars, modeVars>>

\* the uploader reports what it has as the one element of a "pump" array
NestInArray ==
    /\ ~ageDone
    /\ Count(snapshot, {"list"}) = 0
    /\ Deepest(snapshot, 0) + 2 <= DepthBound + 1
    /\ snapshot' = JDict(<<[k |-> sPump, v |-> JList(<<snapshot>>)]>>)
    /\ UNCHANGED <<ageDone, sensor_age_min>>
    /\ UNCHANGED <<renderVars, dashVars, widgetVars, recVars, basalVars, trendVars, lookupVars, labelVars, modeVars>>

\* _extract_ages(latest) inside try / except Exception: pass, lines 425-428
ApplyExtractAges ==
    /\ ~ageDone
    /\ ageDone' = TRUE
    /\ sensor_age_min' = ExtractAges(snapshot, 0, NothingFound).found
    /\ UNCHANGED snapshot
    /\ UNCHANGED <<renderVars, dashVars, widgetVars, recVars, basalVars, trendVars, lookupVars, labelVars, modeVars>>

AgeNext ==
    \/ \E item \in FieldPool : AddField(item)
    \/ NestInObject
    \/ NestInArray
    \/ ApplyExtractAges

(***************************************************************************)
(* dashboard.py: the sensor age of a cycle, fetch_latest_sensor_change     *)
(***************************************************************************)
\* what get_json gives for one treatments query: it raises ("fail"), or
\* returns a list of records ("list", possibly empty), or returns a truthy
\* value that is no list of records, as an error object ("junk")
RespFail == [kind |-> "fail", recs |-> <<>>]
RespList(recs) == [kind |-> "list", recs |-> recs]
RespJunk == [kind |-> "junk", recs |-> <<>>]

\* get_json raised, lines 228 and 231
QueryRaises(resp) == resp.kind = "fail"

\* not data, lines 229 and 235
NoData(resp) == resp.kind = "list" /\ resp.recs = <<>>

\* lines 237-254 on the first record: created_at, timestamp or dateString
\* parsed as ISO-8601, else mills or date when it is a number; t0.get on a
\* value that is no record raises, and the handler of line 255 gives None
SensorChangeInstant(resp) ==
    IF resp.kind # "list" THEN NoTime
    ELSE LET t0 == resp.recs[1]
             ts_raw == Or(Or(t0.created_at, t0.timestamp), t0.dateString)
             ts == IF Truthy(ts_raw) THEN IsoParse(ts_raw) ELSE NoTime
             ms == Or(t0.mills, t0.date)
         IN  IF ts.ok THEN ts
             ELSE IF IsNumber(ms) THEN FromMillis(ms.n) ELSE NoTime

\* int((now - sc_ts).total_seconds() / 60.0), line 513; int() truncates
\* toward zero
AgeSince(now, ts) == now - ts

\* lines 508-513: the cycle's sensor age from the lookup's result
AgeAfterLookup_Zero(now, ts) == IF ts.ok THEN Some(AgeSince(now, ts.t)) ELSE Some(0)
AgeAfterLookup(now, ts) == IF ts.ok THEN Some(AgeSince(now, ts.t)) ELSE None_

\* ---- inputs ----
LookT0 == 2 * T_HALF
sSensorChange == <<"S","e","n","s","o","r"," ","C","h","a","n","g","e">>
ChangeRec == [EmptyRec EXCEPT !.eventType = Str(sSensorChange)]
ChangePool ==
    {[ChangeRec EXCEPT !.created_at = IsoStr(T_HALF)],
     [ChangeRec EXCEPT !.dateString = IsoStr(LookT0)],
     [ChangeRec EXCEPT !.created_at = Str(sGarbage), !.mills = Millis(T_HALF)],
     [ChangeRec EXCEPT !.date = Millis(LookT0)],
     [ChangeRec EXCEPT !.created_at = Str(sGarbage)],
     [ChangeRec EXCEPT !.mills = IntStr(T_HALF * 60 * 1000)],
     ChangeRec}
RespPool == {RespFail, RespJunk, RespList(<<>>)} \cup {RespList(<<r>>) : r \in ChangePool}

\* device snapshots: empty, an age of 0, a nested age as text, a non-finite
\* age text
StatusPool ==
    {JDict(<<>>),
     JDict(<<[k |-> sSAGE, v |-> JNum(0)]>>),
     JDict(<<[k |-> sPump, v |-> JDict(<<[k |-> sage, v |-> JCommaStr(720)]>>)]>>),
     JDict(<<[k |-> sage, v |-> JNonFinite]>>)}

LookupQuiet ==
    /\ lookPc = "idle"
    /\ lookNow = LookT0
    /\ statusAge = None_
    /\ issued = <<>>
    /\ sc_ts = NoTime
    /\ cycleAge = None_
    /\ lookups = 0

\* render_once lines 493 and 506: now is read, the snapshot is searched
SearchSnapshot(status, later) ==
    /\ lookPc = "idle"
    /\ lookups < MaxLookups
    /\ lookNow' = lookNow + later
    /\ statusAge' = ExtractAges(status, 0, NothingFound).found
    /\ issued' = <<>>
    /\ sc_ts' = NoTime
    /\ cycleAge' = None_
    /\ lookPc' = "searched"
    /\ UNCHANGED lookups
    /\ UNCHANGED <<renderVars, dashVars, widgetVars, recVars, basalVars, trendVars, ageVars, labelVars, modeVars>>

\* line 508 false: the snapshot's age is the cycle's
KeepStatusAge ==
    /\ lookPc = "searched"
    /\ statusAge.ok
    /\ cycleAge' = statusAge
    /\ lookPc' = "done"
    /\ UNCHANGED <<lookNow, statusAge, issued, sc_ts, lookups>>
    /\ UNCHANGED <<renderVars, dashVars, widgetVars, recVars, basalVars, trendVars, ageVars, labelVars, modeVars>>

\* line 508 true, line 228: the exact-match query and what follows its
\* answer up to the next query or the return
QueryExact(resp) ==
    /\ lookPc = "searched"
    /\ ~statusAge.ok
    /\ issued' = Append(issued, [q |-> "exact", resp |-> resp])
    /\ IF ~QueryRaises(resp) /\ NoData(resp)
       THEN /\ lookPc' = "regex"
            /\ UNCHANGED <<sc_ts, cycleAge>>
       ELSE /\ sc_ts' = IF QueryRaises(resp) THEN NoTime ELSE SensorChangeInstant(resp)
            /\ cycleAge' = AgeAfterLookup(lookNow, sc_ts')
            /\ lookPc' = "done"
    /\ UNCHANGED <<lookNow, statusAge, lookups>>
    /\ UNCHANGED <<renderVars, dashVars, widgetVars, recVars, basalVars, trendVars, ageVars, labelVars, modeVars>>

\* lines 231-234: the regex query and the rest of the lookup
QueryRegex(resp) ==
    /\ lookPc = "regex"
    /\ issued' = Append(issued, [q |-> "regex", resp |-> resp])
    /\ sc_ts' = IF QueryRaises(resp) \/ NoData(resp) THEN NoTime
                ELSE SensorChangeInstant(resp)
    /\ cycleAge' = AgeAfterLookup(lookNow, sc_ts')
    /\ lookPc' = "done"
    /\ UNCHANGED <<lookNow, statusAge, lookups>>
    /\ UNCHANGED <<renderVars, dashVars, widgetVars, recVars, basalVars, trendVars, ageVars, labelVars, modeVars>>

\* the rest of render_once; the next refresh starts a new cycle
FinishCycle ==
    /\ lookPc = "done"
    /\ lookups' = lookups + 1
    /\ lookPc' = "idle"
    /\ UNCHANGED <<lookNow, statusAge, issued, sc_ts, cycleAge>>
    /\ UNCHANGED <<renderVars, dashVars, widgetVars, recVars, basalVars, trendVars, ageVars, labelVars, modeVars>>

LookupNext ==
    \/ \E status \in StatusPool, later \in {0, T_HALF} : SearchSnapshot(status, later)
    \/ KeepStatusAge
    \/ \E resp \in RespPool : QueryExact(resp)
    \/ \E resp \in RespPool : QueryRegex(resp)
    \/ FinishCycle

(***************************************************************************)
(* widget.py: _annotate_events_on_bg.  Glucose values and axis limits are  *)
(* in tenths of mmol/L; label offsets are in points.                       *)
(***************************************************************************)
ABOVE_ROOM == 9         \* 0.9, line 1115
BOLUS_OFF == 8          \* line 1122
BELOW_OFF == -10        \* lines 1125, 1129, 1132
STACK_STEP == 12        \* lines 1125, 1129, 1132
TOP_NEEDED == 8         \* 0.8, line 1185

\* lines 1086-1093: the instants that have a group; an event whose time is
\* no datetime joins no group
GroupKeys(bs, cs) ==
    {bs[i].v : i \in {j \in DOMAIN bs : bs[j].ok}} \cup
    {cs[i].v : i \in {j \in DOMAIN cs : cs[j].ok}}

\* groups[ts]["bolus"] and groups[ts]["carb"]: the positions, in insertion
\* order, of the events of the list whose time is ts
RECURSIVE EntriesAt(_, _, _)
EntriesAt(list, ts, i) ==
    IF i > Len(list) THEN <<>>
    ELSE (IF list[i].ok /\ list[i].v = ts THEN <<i>> ELSE <<>>) \o EntriesAt(list, ts, i + 1)

\* line 1105: the rows at or before ts; tail(1) takes the last
RowsUpTo(rows, ts) == SelectSeq(rows, LAMBDA r : r.time <= ts)

\* lines 1112-1118
PlaceAbove(y_val, ymax) == ~(y_val + ABOVE_ROOM > ymax)

\* lines 1119-1132: annotations_plan of one group
AbovePlan(ts, y_val, bolus_entries, carb_entries) ==
    [i \in 1..Len(bolus_entries) |->
        [ts |-> ts, y |-> y_val, is_bolus |-> TRUE, item |-> bolus_entries[i],
         off |-> BOLUS_OFF]] \o
    [i \in 1..Len(carb_entries) |->
        [ts |-> ts, y |-> y_val, is_bolus |-> FALSE, item |-> carb_entries[i],
         off |-> BELOW_OFF - (i - 1) * STACK_STEP]]
BelowPlan_CarbsFirst(ts, y_val, bolus_entries, carb_entries) ==
    [i \in 1..Len(carb_entries) |->
        [ts |-> ts, y |-> y_val, is_bolus |-> FALSE, item |-> carb_entries[i],
         off |-> BELOW_OFF - (i - 1) * STACK_STEP]] \o
    [i \in 1..Len(bolus_entries) |->
        [ts |-> ts, y |-> y_val, is_bolus |-> TRUE, item |-> bolus_entries[i],
         off |-> BELOW_OFF - (Len(carb_entries) + i - 1) * STACK_STEP]]
BelowPlan(ts, y_val, bolus_entries, carb_entries) ==
    [i \in 1..Len(bolus_entries) |->
        [ts |-> ts, y |-> y_val, is_bolus |-> TRUE, item |-> bolus_entries[i],
         off |-> BELOW_OFF - (i - 1) * STACK_STEP]] \o
    [j \in 1..Len(carb_entries) |->
        [ts |-> ts, y |-> y_val, is_bolus |-> FALSE, item |-> carb_entries[j],
         off |-> BELOW_OFF - (Len(bolus_entries) + j - 1) * STACK_STEP]]

\* one pass of the loop of line 1104: the labels of the group at ts
GroupLabels(rows, bs, cs, ymax, ts) ==
    LET row_glu == RowsUpTo(rows, ts)
        y_val == row_glu[Len(row_glu)].mmol
        bolus_entries == EntriesAt(bs, ts, 1)
        carb_entries == EntriesAt(cs, ts, 1)
    IN  IF row_glu = <<>> THEN <<>>
        ELSE IF PlaceAbove(y_val, ymax)
             THEN AbovePlan(ts, y_val, bolus_entries, carb_entries)
             ELSE BelowPlan(ts, y_val, bolus_entries, carb_entries)

\* the loop of line 1104 over the sorted keys not yet visited
RECURSIVE AllLabels(_, _, _, _, _)
AllLabels(rows, bs, cs, ymax, keys) ==
    IF keys = {} THEN <<>>
    ELSE LET ts == CHOOSE k \in keys : \A o \in keys : k <= o
         IN  GroupLabels(rows, bs, cs, ymax, ts) \o
             AllLabels(rows, bs, cs, ymax, keys \ {ts})

\* lines 1184-1186 over the labels placed: y_max_extra, None without a
\* label above its point
RECURSIVE YMaxExtra(_, _)
YMaxExtra(ls, i) ==
    IF i > Len(ls) THEN None_
    ELSE LET rest == YMaxExtra(ls, i + 1)
             top_needed == ls[i].y + TOP_NEEDED
         IN  IF ls[i].off <= 0 THEN rest
             ELSE IF rest.ok /\ rest.v >= top_needed THEN rest ELSE Some(top_needed)

\* lines 1187-1193
NewYMax_Always(ymax, extra) == IF extra.ok THEN extra.v ELSE ymax
NewYMax(ymax, extra) == IF extra.ok /\ extra.v > ymax THEN extra.v ELSE ymax

\* ---- inputs ----
LabelTimes == {1, 2}
EventTimes == {Some(t) : t \in LabelTimes} \cup {None_}
RowPool == [time : {0, 2}, mmol : {60, 91, 92}]
YLimPool == {100, 120}

LabelQuiet ==
    /\ bgRows = <<>>
    /\ bolus_list = <<>>
    /\ carbs_list = <<>>
    /\ cur_ymax = 100
    /\ ymaxBefore = 100
    /\ labels = <<>>
    /\ annotated = FALSE

\* the cycle's glucose frame gets its next sample
AddRow(row) ==
    /\ ~annotated
    /\ \A i \in DOMAIN bgRows : bgRows[i].time < row.time
    /\ bgRows' = Append(bgRows, row)
    /\ UNCHANGED <<bolus_list, carbs_list, cur_ymax, ymaxBefore, labels, annotated>>
    /\ UNCHANGED <<renderVars, dashVars, widgetVars, recVars, basalVars, trendVars, ageVars, lookupVars, modeVars>>

AddBolus(time) ==
    /\ ~annotated
    /\ Len(bolus_list) < MaxBoluses
    /\ bolus_list' = Append(bolus_list, time)
    /\ UNCHANGED <<bgRows, carbs_list, cur_ymax, ymaxBefore, labels, annotated>>
    /\ UNCHANGED <<renderVars, dashVars, widgetVars, recVars, basalVars, trendVars, ageVars, lookupVars, modeVars>>

AddCarb(time) ==
    /\ ~annotated
    /\ Len(carbs_list) < MaxCarbs
    /\ carbs_list' = Append(carbs_list, time)
    /\ UNCHANGED <<bgRows, bolus_list, cur_ymax, ymaxBefore, labels, annotated>>
    /\ UNCHANGED <<renderVars, dashVars, widgetVars, recVars, basalVars, trendVars, ageVars, lookupVars, modeVars>>

\* _render_chart sets the glucose axis limits before annotating
SetYLim(ymax) ==
    /\ ~annotated
    /\ ymax # cur_ymax
    /\ cur_ymax' = ymax
    /\ ymaxBefore' = ymax
    /\ UNCHANGED <<bgRows, bolus_list, carbs_list, labels, annotated>>
    /\ UNCHANGED <<renderVars, dashVars, widgetVars, recVars, basalVars, trendVars, ageVars, lookupVars, modeVars>>

\* _annotate_events_on_bg(ax, entries_df, bolus_list, carbs_list)
AnnotateEventsOnBg ==
    /\ ~annotated
    /\ annotated' = TRUE
    /\ IF bgRows = <<>> \/ GroupKeys(bolus_list, carbs_list) = {}
       THEN UNCHANGED <<labels, cur_ymax>>
       ELSE /\ labels' = AllLabels(bgRows, bolus_list, carbs_list, cur_ymax,
                                   GroupKeys(bolus_list, carbs_list))
            /\ cur_ymax' = NewYMax(cur_ymax, YMaxExtra(labels', 1))
    /\ UNCHANGED <<bgRows, bolus_list, carbs_list, ymaxBefore>>
    /\ UNCHANGED <<renderVars, dashVars, widgetVars, recVars, basalVars, trendVars, ageVars, lookupVars, modeVars>>

LabelNext ==
    \/ \E row \in RowPool : AddRow(row)
    \/ \E time \in EventTimes : AddBolus(time)
    \/ \E time \in EventTimes : AddCarb(time)
    \/ \E ymax \in YLimPool : SetYLim(ymax)
    \/ AnnotateEventsOnBg

(***************************************************************************)
(* widget.py: display modes, settings, and the apply callback              *)
(***************************************************************************)
ModeQuiet ==
    /\ compact = FALSE
    /\ minimal = FALSE
    /\ chartShown = TRUE
    /\ labelsShown = TRUE
    /\ netBASE = TRUE
    /\ netAUTH = TRUE
    /\ netSession = FALSE
    /\ immediate = 0
    /\ applies = 0
    /\ lastApply = "none"
    /\ saved = NeverSaved

\* the state CGMWidget.__init__ leaves, lines 470-577: every label and the
\* chart frame packed, schedule_update(0) pending, both flags off; in
\* Dexcom-only mode minimal is forced and the chart frame is hidden.  net
\* has read the same environment as the widget module.
ModeInit ==
    /\ compact = FALSE
    /\ minimal = dexcomOnly
    /\ chartShown = ~dexcomOnly
    /\ labelsShown = TRUE
    /\ netBASE = wBASE
    /\ netAUTH = wAUTH
    /\ netSession = FALSE
    /\ immediate = 1
    /\ applies = 0
    /\ lastApply = "none"
    /\ saved = NeverSaved

\* what a handler leaves when it only shows a message box
NothingChanges ==
    /\ UNCHANGED <<widgetVars, modeVars>>
    /\ UNCHANGED <<renderVars, dashVars, recVars, basalVars, trendVars, ageVars, lookupVars, labelVars>>

\* _enable_diagram_mode, lines 622-642
EnableDiagramMode ==
    IF dexcomOnly THEN NothingChanges
    ELSE /\ timers < MaxTimers
         /\ minimal' = FALSE
         /\ compact' = FALSE
         /\ labelsShown' = TRUE
         /\ chartShown' = TRUE
         /\ timers' = timers + 1
         /\ immediate' = immediate + 1
         /\ UNCHANGED <<netBASE, netAUTH, netSession, applies, lastApply, saved>>
         /\ UNCHANGED <<wBASE, wAUTH, dexcomOnly, workers, wStatus, wCycles, wReports>>
         /\ UNCHANGED <<renderVars, dashVars, recVars, basalVars, trendVars, ageVars, lookupVars, labelVars>>

\* _toggle_compact, lines 1478-1512
ToggleCompact ==
    LET new_val == ~compact
        scheduling == ~new_val /\ ~minimal
    IN  IF dexcomOnly /\ new_val THEN NothingChanges
        ELSE /\ scheduling => timers < MaxTimers
             /\ compact' = new_val
             /\ minimal' = IF new_val THEN FALSE ELSE minimal
             /\ labelsShown' = IF new_val /\ minimal THEN TRUE ELSE labelsShown
             /\ chartShown' = IF new_val THEN FALSE
                              ELSE IF ~minimal THEN TRUE ELSE chartShown
             /\ timers' = IF scheduling THEN timers + 1 ELSE timers
             /\ immediate' = IF scheduling THEN immediate + 1 ELSE immediate
             /\ UNCHANGED <<netBASE, netAUTH, netSession, applies, lastApply, saved>>
             /\ UNCHANGED <<wBASE, wAUTH, dexcomOnly, workers, wStatus, wCycles, wReports>>
             /\ UNCHANGED <<renderVars, dashVars, recVars, basalVars, trendVars, ageVars, lookupVars, labelVars>>

\* _toggle_minimal, lines 1514-1560
ToggleMinimal ==
    LET new_val == ~minimal
        scheduling == ~new_val /\ ~compact
    IN  IF dexcomOnly /\ ~new_val THEN NothingChanges
        ELSE /\ scheduling => timers < MaxTimers
             /\ minimal' = new_val
             /\ compact' = IF new_val THEN FALSE ELSE compact
             /\ labelsShown' = ~new_val
             /\ chartShown' = IF new_val THEN FALSE
                              ELSE IF ~compact THEN TRUE ELSE chartShown
             /\ timers' = IF scheduling THEN timers + 1 ELSE timers
             /\ immediate' = IF scheduling THEN immediate + 1 ELSE immediate
             /\ UNCHANGED <<netBASE, netAUTH, netSession, applies, lastApply, saved>>
             /\ UNCHANGED <<wBASE, wAUTH, dexcomOnly, workers, wStatus, wCycles, wReports>>
             /\ UNCHANGED <<renderVars, dashVars, recVars, basalVars, trendVars, ageVars, lookupVars, labelVars>>

\* the flags after _apply_settings, lines 1616-1646
LabelsAfterSave(use_dexcom) == ~use_dexcom
MinimalAfterSave_Kept(use_dexcom) == minimal
MinimalAfterSave(use_dexcom) == use_dexcom \/ minimal
CompactAfterSave_Kept(use_dexcom) == compact
CompactAfterSave(use_dexcom) == ~use_dexcom /\ compact
ChartAfterSave_Shown(use_dexcom) == ~use_dexcom
ChartAfterSave(use_dexcom) ==
    IF use_dexcom THEN FALSE
    ELSE IF ~compact /\ ~minimal THEN TRUE ELSE chartShown

\* _apply_settings, lines 1582-1647, with the .env written: net.refresh_env
\* (net.py lines 131-139) re-reads the endpoint and the credential into
\* net's globals and drops the session; the widget module's own BASE, TOKEN
\* and SECRET_SHA1 (lines 58-61) are not assigned
ApplySettings(url, auth, use_dexcom) ==
    /\ timers < MaxTimers
    /\ netBASE' = url
    /\ netAUTH' = auth
    /\ netSession' = FALSE
    /\ dexcomOnly' = use_dexcom
    /\ minimal' = MinimalAfterSave(use_dexcom)
    /\ compact' = CompactAfterSave(use_dexcom)
    /\ chartShown' = ChartAfterSave(use_dexcom)
    /\ labelsShown' = LabelsAfterSave(use_dexcom)
    /\ timers' = timers + 1
    /\ immediate' = immediate + 1
    /\ saved' = [cfg |-> IF url /\ auth THEN "full" ELSE "partial", old |-> workers > 0]
    /\ UNCHANGED <<applies, lastApply>>
    /\ UNCHANGED <<wBASE, wAUTH, workers, wStatus, wCycles, wReports>>
    /\ UNCHANGED <<renderVars, dashVars, recVars, basalVars, trendVars, ageVars, lookupVars, labelVars>>

\* update_data.apply, line 898
Redraws(chart_payload) == chart_payload /\ ~compact /\ ~minimal /\ ~dexcomOnly

\* update_data.apply, lines 889-900, run by the main loop: the texts are
\* set and the chart is redrawn when the cycle produced a chart payload
Apply(chart_payload) ==
    /\ applies > 0
    /\ applies' = applies - 1
    /\ lastApply' = IF Redraws(chart_payload) THEN "chart" ELSE "text"
    /\ UNCHANGED <<compact, minimal, chartShown, labelsShown, netBASE, netAUTH,
                   netSession, immediate, saved>>
    /\ UNCHANGED widgetVars
    /\ UNCHANGED <<renderVars, dashVars, recVars, basalVars, trendVars, ageVars, lookupVars, labelVars>>

ModesNext ==
    \/ WidgetNext
    \/ EnableDiagramMode
    \/ ToggleCompact
    \/ ToggleMinimal
    \/ \E url, auth, use_dexcom \in BOOLEAN : ApplySettings(url, auth, use_dexcom)
    \/ \E chart_payload \in BOOLEAN : Apply(chart_payload)

(***************************************************************************)
(* Specifications                                                          *)
(***************************************************************************)
\* callers of _render_chart, interleaved
InitRender == RenderInit /\ DashQuiet /\ WidgetQuiet /\ RecQuiet /\ BasalQuiet /\ TrendQuiet /\ AgeQuiet /\ ModeQuiet /\ LabelQuiet /\ LookupQuiet
SpecRender == InitRender /\ [][RenderNext]_vars

\* the dashboard process and its refresh cycles
InitCycle == DashInit /\ RenderInit /\ WidgetQuiet /\ RecQuiet /\ BasalQuiet /\ TrendQuiet /\ AgeQuiet /\ ModeQuiet /\ LabelQuiet /\ LookupQuiet
SpecCycle == InitCycle /\ [][DashNext]_vars

\* the widget and its update cycles
InitWidget == WidgetInit /\ RenderInit /\ DashQuiet /\ RecQuiet /\ BasalQuiet /\ TrendQuiet /\ AgeQuiet /\ ModeInit /\ LabelQuiet /\ LookupQuiet
SpecWidget == InitWidget /\ [][WidgetNext]_vars

\* split_events, fetch_entries and fallback_bolus_iob applied to raw records;
\* the dashboard module was imported at RecNow
InitRecords ==
    /\ RecQuiet /\ RenderInit /\ WidgetQuiet /\ BasalQuiet /\ TrendQuiet /\ AgeQuiet /\ ModeQuiet /\ LabelQuiet /\ LookupQuiet
    /\ dpc = "running" /\ envBASE = TRUE /\ envUseDexcom = FALSE
    /\ NOW = RecNow /\ clock = RecNow
    /\ srvTreatments = <<>> /\ srvStatus = NoStatus
    /\ cycles = 0 /\ cycNow = 0 /\ cycTreatments = <<>> /\ cycFallback = FALSE
    /\ cycBolusIob = 0 /\ cycBasalIob = 0 /\ cycCob = 0 /\ dashReports = 0
SpecRecords == InitRecords /\ [][RecNext]_vars

\* split_events applied to well-typed records
InitClassify == InitRecords
SpecClassify == InitClassify /\ [][ClassNext]_vars

\* the metrics of the cycles of a dashboard started at RecNow
InitMetrics == InitRecords
SpecMetrics == InitMetrics /\ [][MetricsNext]_vars

\* fallback_bolus_iob in a dashboard imported at DecayNow
InitDecay ==
    /\ RecQuiet /\ RenderInit /\ WidgetQuiet /\ BasalQuiet /\ TrendQuiet /\ AgeQuiet /\ ModeQuiet /\ LabelQuiet /\ LookupQuiet
    /\ dpc = "running" /\ envBASE = TRUE /\ envUseDexcom = FALSE
    /\ NOW = DecayNow /\ clock = DecayNow
    /\ srvTreatments = <<>> /\ srvStatus = NoStatus
    /\ cycles = 0 /\ cycNow = 0 /\ cycTreatments = <<>> /\ cycFallback = FALSE
    /\ cycBolusIob = 0 /\ cycBasalIob = 0 /\ cycCob = 0 /\ dashReports = 0
SpecDecay == InitDecay /\ [][DecayNext]_vars

\* current_plan_basal and build_basal_series applied to a profile and overlays
InitBasal == BasalInit /\ RenderInit /\ DashQuiet /\ WidgetQuiet /\ RecQuiet /\ TrendQuiet /\ AgeQuiet /\ ModeQuiet /\ LabelQuiet /\ LookupQuiet
SpecBasal == InitBasal /\ [][BasalNext]_vars

\* the trend arrow of a dashboard cycle and of a widget cycle on the same
\* readings
InitTrend ==
    /\ TrendInit /\ RenderInit /\ DashQuiet /\ WidgetQuiet /\ RecQuiet /\ BasalQuiet
    /\ AgeQuiet /\ ModeQuiet /\ LabelQuiet /\ LookupQuiet
SpecTrend == InitTrend /\ [][TrendNext]_vars

\* _extract_ages applied to device snapshots
InitAge ==
    /\ AgeQuiet /\ ModeQuiet /\ LabelQuiet /\ LookupQuiet /\ RenderInit /\ DashQuiet /\ WidgetQuiet /\ RecQuiet /\ BasalQuiet
    /\ TrendQuiet
SpecAge == InitAge /\ [][AgeNext]_vars

\* the sensor age of the dashboard's cycles
InitLookup ==
    /\ LookupQuiet /\ AgeQuiet /\ ModeQuiet /\ LabelQuiet /\ RenderInit /\ DashQuiet /\ WidgetQuiet /\ RecQuiet
    /\ BasalQuiet /\ TrendQuiet
SpecLookup == InitLookup /\ [][LookupNext]_vars

\* _annotate_events_on_bg applied to the events and samples of a cycle
InitLabels ==
    /\ LabelQuiet /\ AgeQuiet /\ ModeQuiet /\ LookupQuiet /\ RenderInit /\ DashQuiet /\ WidgetQuiet /\ RecQuiet
    /\ BasalQuiet /\ TrendQuiet
SpecLabels == InitLabels /\ [][LabelNext]_vars

\* the widget with its menu, its settings window and its update cycles
InitModes ==
    /\ WidgetInit /\ ModeInit /\ RenderInit /\ DashQuiet /\ RecQuiet /\ BasalQuiet
    /\ TrendQuiet /\ AgeQuiet /\ LookupQuiet /\ LabelQuiet
SpecModes == InitModes /\ [][ModesNext]_vars

(***************************************************************************)
(* Claims                                                                  *)
(***************************************************************************)
\* C1: in every refresh cycle where the fallback bolus IOB is used, the
\* cycle's bolus IOB is the sum of dose x 0.5^((t - dose_instant)/60) over
\* the fetched doses within the DIA window at the cycle's own time t.
C1_FallbackAgedAtCycleTime ==
    (cycles > 0 /\ cycFallback) => cycBolusIob = IobAt(cycTreatments, cycNow)

\* C4: a missing endpoint or credential is reported once for the process,
\* however many refresh cycles run: the dashboard and the widget each make
\* at most one missing-configuration report.
C4_MissingConfigReportedOnce ==
    dashReports <= 1 /\ wReports <= 1

\* a thread past the check that is blocked in the with statement
Waiting(t) == pc[t] = "acquire" /\ Locked

\* C2: at most one execution of _render_chart is inside the render section
\* (clearing and redrawing the axes) at any time, and the one inside holds
\* the lock.
C2_OneRenderInSection ==
    /\ Cardinality({t \in Threads : InSection(t)}) <= 1
    /\ \A t \in Threads : InSection(t) => plotLock = t

\* C2 witness: one thread is inside the section while another caller has
\* already passed the check and stands at the with statement.
C2_Witness ==
    \E t, u \in Threads : t # u /\ InSection(t) /\ pc[u] = "acquire"

\* C3: a request that meets a render in flight is dropped and never waits
\* for the lock: no caller is ever blocked in the with statement while
\* another execution holds the lock.
C3_NeverWaitsForLock ==
    \A t \in Threads : ~Waiting(t)

\* The records of a list on which the loop body of split_events raises no fault.
C5_WellFormed(trs) ==
    SelectSeq(trs, LAMBDA t : ~ClassifyRecord(t, TreatmentTime(t)).raised)

\* C5: for every list of treatment records, split_events returns its four
\* lists without raising; a malformed record is excluded and every other
\* record of the list is still classified.
C5_SplitEventsNeverRaises ==
    "split" \in applied =>
        /\ ~splitOut.raised
        /\ splitOut = SplitEvents(C5_WellFormed(rawTreatments))

\* The instant C6 describes: the string timestamp where it parses, otherwise
\* the epoch-milliseconds field where it is numeric, otherwise none.
C6_StringElseMillis(str, ms) ==
    IF IsoParse(str).ok THEN IsoParse(str)
    ELSE IF IsNumber(ms) THEN FromMillis(ms.n) ELSE NoTime

C6_TreatmentTimes(trs) ==
    [i \in DOMAIN trs |->
        C6_StringElseMillis(Or(Or(trs[i].created_at, trs[i].timestamp), trs[i].dateString),
                            Or(trs[i].mills, trs[i].date))]

C6_EntryTimes(es) ==
    [i \in DOMAIN es |->
        C6_StringElseMillis(Or(es[i].dateString, es[i].created_at), es[i].date)]

\* C6: a record whose string timestamp is absent or unparseable but whose
\* epoch-milliseconds field is numeric is kept and timed from the
\* epoch-milliseconds value, and a record is dropped for its timestamp only
\* when both are absent or unparseable, in fetch_entries, split_events and
\* fallback_bolus_iob: each result is the one obtained from those instants.
C6_MillisFallback ==
    /\ "rows" \in applied =>
          rowsOut = SortByTime(RowsFrom(rawEntries, C6_EntryTimes(rawEntries), 1))
    /\ "split" \in applied =>
          splitOut = SplitFrom(rawTreatments, C6_TreatmentTimes(rawTreatments), 1)
    /\ "iob" \in applied =>
          iobOut = IobFrom(rawTreatments, C6_TreatmentTimes(rawTreatments), NOW, 1)

\* The segment starts of the profile that are not after the second s.
C7_StartsUpTo(s) == {k \in DOMAIN plan : k <= s}
C7_Greatest(S) == CHOOSE k \in S : \A j \in S : j <= k

\* C7: for a non-empty profile and a time of day s, current_plan_basal
\* returns the rate of the segment with the greatest start second <= s, and
\* when s precedes every segment start the rate of the segment with the
\* greatest start second.
C7_LatestSegmentOrWrap ==
    (asked.ok /\ DOMAIN plan # {}) =>
        LET s == SecondsOfDay(asked.v)
        IN  /\ current.ok
            /\ current.v = IF C7_StartsUpTo(s) # {}
                           THEN plan[C7_Greatest(C7_StartsUpTo(s))]
                           ELSE plan[C7_Greatest(DOMAIN plan)]

\* a profile of several segments asked about a second before its first start,
\* and answered with the rate of its last segment
C7_Witness ==
    /\ asked.ok
    /\ Cardinality(DOMAIN plan) > 1
    /\ C7_StartsUpTo(SecondsOfDay(asked.v)) = {}
    /\ current = Some(plan[C7_Greatest(DOMAIN plan)])

\* The grid instant m lies in the window [start, start + duration) of the
\* i-th overlay.
C8_Covers(i, m) ==
    temps[i].start <= m /\ m < temps[i].start + MINUTE * temps[i].duration

\* C8: every minute of the series that lies in no overlay window has
\* actual_rate equal to plan_rate and is not marked overridden.
C8_UncoveredMinutesKeepPlan ==
    built =>
        \A k \in DOMAIN series :
            (\A i \in DOMAIN temps : ~C8_Covers(i, series[k].t)) =>
                /\ series[k].actual_u_per_h = series[k].plan_u_per_h
                /\ ~series[k].is_temp

\* a series with a non-zero plan in which one minute is overridden and a
\* later one, after the window, is not
C8_Witness ==
    /\ built
    /\ \E k, j \in DOMAIN series :
          /\ k < j
          /\ series[k].is_temp
          /\ \A i \in DOMAIN temps : ~C8_Covers(i, series[j].t)
          /\ series[j].plan_u_per_h > 0
          /\ series[j].actual_u_per_h = series[j].plan_u_per_h

\* C9: with a single overlay of absolute rate r, different from the plan
\* rate, starting at T with duration d minutes, the grid minutes m with
\* T <= m < T + d are exactly those with actual_rate = r and is_overridden
\* true.
C9_AbsoluteWindowExact ==
    (/\ built
     /\ Len(temps) = 1
     /\ ~temps[1].absolute.isnan
     /\ \A k \in DOMAIN series : series[k].plan_u_per_h # temps[1].absolute.v) =>
        \A k \in DOMAIN series :
            C8_Covers(1, series[k].t) <=>
                (series[k].actual_u_per_h = temps[1].absolute.v /\ series[k].is_temp)

\* one absolute overlay that starts on a grid minute and ends on another: the
\* first is overridden, the second is not
C9_Witness ==
    /\ built
    /\ Len(temps) = 1
    /\ ~temps[1].absolute.isnan
    /\ \E k, j \in DOMAIN series :
          /\ series[k].t = temps[1].start
          /\ series[j].t = temps[1].start + MINUTE * temps[1].duration
          /\ k < j
          /\ series[k].is_temp /\ series[k].actual_u_per_h = temps[1].absolute.v
          /\ ~series[j].is_temp

\* The overlays whose window holds the grid instant m.
C10_Covering(m) == {i \in DOMAIN temps : C8_Covers(i, m)}

\* C10: for a minute covered by one overlay, actual_rate is the overlay's
\* absolute rate if it carries one, whatever its percent; if it carries only
\* a percent p it is plan_rate x p / 100, from the plan rate of that minute.
C10_AbsoluteBeforePercent ==
    built =>
        \A k \in DOMAIN series :
            Cardinality(C10_Covering(series[k].t)) = 1 =>
                LET o == temps[CHOOSE i \in C10_Covering(series[k].t) : TRUE]
                IN  /\ ~o.absolute.isnan =>
                          series[k].actual_u_per_h = o.absolute.v
                    /\ (o.absolute.isnan /\ ~o.percent.isnan) =>
                          series[k].actual_u_per_h =
                              (series[k].plan_u_per_h * o.percent.v) \div 100

\* a minute covered by one overlay that carries both an absolute rate and a
\* percent, the two giving different rates
C10_Witness ==
    /\ built
    /\ \E k \in DOMAIN series :
          /\ Cardinality(C10_Covering(series[k].t)) = 1
          /\ LET o == temps[CHOOSE i \in C10_Covering(series[k].t) : TRUE]
             IN  /\ ~o.absolute.isnan /\ ~o.percent.isnan
                 /\ o.absolute.v # (series[k].plan_u_per_h * o.percent.v) \div 100
                 /\ series[k].actual_u_per_h = o.absolute.v

\* The overlay o carries an absolute rate or a percent, and the rate it
\* writes on a minute whose plan rate is planRate.
C11_Carries(o) == ~o.absolute.isnan \/ ~o.percent.isnan
C11_Written(o, planRate) ==
    IF ~o.absolute.isnan THEN o.absolute.v ELSE (planRate * o.percent.v) \div 100
C11_Last(S) == CHOOSE i \in S : \A j \in S : j <= i
C11_First(S) == CHOOSE i \in S : \A j \in S : i <= j

\* C11: for every minute covered by two or more overlays that each carry an
\* absolute rate or a percent, actual_rate is the value written by the last
\* of those overlays in list order, whatever the earlier ones are.
C11_LastOverlayWins ==
    built =>
        \A k \in DOMAIN series :
            LET cov == C10_Covering(series[k].t)
            IN  (Cardinality(cov) >= 2 /\ \A i \in cov : C11_Carries(temps[i])) =>
                    series[k].actual_u_per_h =
                        C11_Written(temps[C11_Last(cov)], series[k].plan_u_per_h)

\* a minute covered by two overlays of different kinds, the later-listed one
\* starting earlier, that shows the rate of the later-listed one
C11_Witness ==
    /\ built
    /\ \E k \in DOMAIN series :
          LET cov == C10_Covering(series[k].t)
              p == series[k].plan_u_per_h
          IN  /\ Cardinality(cov) >= 2
              /\ \A i \in cov : C11_Carries(temps[i])
              /\ temps[C11_Last(cov)].start < temps[C11_First(cov)].start
              /\ temps[C11_Last(cov)].absolute.isnan
              /\ C11_Written(temps[C11_First(cov)], p) # C11_Written(temps[C11_Last(cov)], p)
              /\ series[k].actual_u_per_h = C11_Written(temps[C11_Last(cov)], p)

\* The record's event type is the text "temp basal" in some letter case and
\* its timestamp resolves.
C12_IsTempBasal(t) ==
    /\ t.eventType.ty = "str"
    /\ LowerStr(t.eventType.s) = temp_basal
    /\ TreatmentTime(t).ok

\* C12: a record with a resolvable timestamp whose event type equals
\* "temp basal" in any letter case yields exactly one TempBasal entry, with
\* duration 0 when the record has no duration, and no carbohydrate and no
\* bolus event: a list of such records gives one entry per record.
C12_TempBasalYieldsOneEntry ==
    (/\ "split" \in applied
     /\ \A i \in DOMAIN rawTreatments : C12_IsTempBasal(rawTreatments[i])) =>
        /\ ~splitOut.raised
        /\ Len(splitOut.temps) = Len(rawTreatments)
        /\ \A i \in DOMAIN rawTreatments :
              IsNone(rawTreatments[i].duration) => splitOut.temps[i].duration = 0
        /\ splitOut.carbs = <<>>
        /\ splitOut.bolus_big = <<>>
        /\ splitOut.bolus_mini = <<>>

\* The record is no temp-basal record and its timestamp resolves; the value
\* is a positive number.
C13_NonTempTimed(t) ==
    /\ TreatmentTime(t).ok
    /\ ~(t.eventType.ty = "str" /\ LowerStr(t.eventType.s) = temp_basal)
C13_Positive(v) == v.ty = "num" /\ v.n > 0
C13_WithCarbs ==
    {i \in DOMAIN rawTreatments :
        /\ C13_NonTempTimed(rawTreatments[i])
        /\ C13_Positive(rawTreatments[i].carbs) \/ C13_Positive(rawTreatments[i].carb_input)}

\* C13: a non-temp-basal record with a resolvable timestamp and a positive
\* numeric value under carbs or carb_input yields exactly one CarbIntake with
\* that many grams, whether or not it also yields a bolus.
C13_PositiveCarbsYieldIntake ==
    "split" \in applied =>
        /\ Len(splitOut.carbs) = Cardinality(C13_WithCarbs)
        /\ \A j \in DOMAIN splitOut.carbs :
              \E i \in C13_WithCarbs :
                  \/ C13_Positive(rawTreatments[i].carbs)
                        /\ splitOut.carbs[j].grams = rawTreatments[i].carbs.n
                  \/ C13_Positive(rawTreatments[i].carb_input)
                        /\ splitOut.carbs[j].grams = rawTreatments[i].carb_input.n

\* The record's event type, explicit type or a tag holds "smb" in some letter
\* case; the record holds a positive dose under one of the keys.
C14_Texts(t) ==
    (IF t.eventType.ty = "str" THEN {t.eventType.s} ELSE {})
    \cup (IF t.type.ty = "str" THEN {t.type.s} ELSE {})
    \cup (IF t.tags.ty = "list" THEN {t.tags.l[i] : i \in DOMAIN t.tags.l} ELSE {})
C14_NamesSmb(t) == \E x \in C14_Texts(t) : Contains(LowerStr(x), smb)
C14_Found(t) == C13_NonTempTimed(t) /\ Units(t).ok /\ Units(t).v > 0
C14_SomePositive(t) ==
    \E i \in DOMAIN DoseKeys :
        t[DoseKeys[i]].ty \in {"num", "intstr", "commastr"} /\ t[DoseKeys[i]].n > 0

\* C14: a record yields at most one bolus event: when a positive dose is
\* found it is a MicroBolus exactly when the event type, the explicit type or
\* a tag contains "smb" in any letter case and a ManualBolus otherwise; a
\* record with no positive dose under any key yields no bolus event.
C14_OneBolusByKind ==
    "split" \in applied =>
        /\ Len(splitOut.bolus_mini) =
              Cardinality({i \in DOMAIN rawTreatments :
                  C14_Found(rawTreatments[i]) /\ C14_NamesSmb(rawTreatments[i])})
        /\ Len(splitOut.bolus_big) =
              Cardinality({i \in DOMAIN rawTreatments :
                  C14_Found(rawTreatments[i]) /\ ~C14_NamesSmb(rawTreatments[i])})
        /\ \A j \in DOMAIN splitOut.bolus_mini : splitOut.bolus_mini[j].is_smb
        /\ \A j \in DOMAIN splitOut.bolus_big : ~splitOut.bolus_big[j].is_smb
        /\ Len(splitOut.bolus_mini) + Len(splitOut.bolus_big) <=
              Cardinality({i \in DOMAIN rawTreatments : C14_SomePositive(rawTreatments[i])})

\* two records with a positive dose, one named SMB in capitals by its event
\* type only, one not: one MicroBolus and one ManualBolus
C14_Witness ==
    /\ "split" \in applied
    /\ Len(rawTreatments) = 2
    /\ rawTreatments[1].eventType = Str(sSMB) /\ rawTreatments[1].type = NoneV
    /\ C14_Found(rawTreatments[1])
    /\ ~C14_NamesSmb(rawTreatments[2]) /\ C14_Found(rawTreatments[2])
    /\ Len(splitOut.bolus_mini) = 1 /\ Len(splitOut.bolus_big) = 1

\* The first positive value of the record in the key order, if any.
RECURSIVE C15_FirstPositive(_, _)
C15_FirstPositive(t, i) ==
    IF i > Len(DoseKeys) THEN None_
    ELSE LET v == t[DoseKeys[i]]
         IN  IF v.ty \in {"num", "commastr"} /\ v.n > 0 THEN Some(v.n)
             ELSE C15_FirstPositive(t, i + 1)
C15_Count(seq, u) == Cardinality({j \in DOMAIN seq : seq[j].units = u})
C15_Expected(u) ==
    Cardinality({i \in DOMAIN rawTreatments :
        /\ C13_NonTempTimed(rawTreatments[i])
        /\ C15_FirstPositive(rawTreatments[i], 1) = Some(u)})

\* C15: every non-temp-basal record in which at least one of the keys
\* insulin, insulinInUnits, amount, units, value holds a positive number (or a
\* comma-decimal string of one) yields a bolus event whose units are the
\* first positive value in that key order.
C15_FirstPositiveDose ==
    "split" \in applied =>
        \A u \in 0..3 :
            C15_Count(splitOut.bolus_big, u) + C15_Count(splitOut.bolus_mini, u)
                = C15_Expected(u)

\* The snapshot carries numeric iob.iob and iob.basaliob in its loop object.
C16_Authoritative(st) == st.present /\ IsNumber(st.iob) /\ IsNumber(st.basaliob)

\* C16: in a cycle whose latest device snapshot has numeric iob.iob and
\* iob.basaliob, the bolus IOB is iob.iob - iob.basaliob, the basal IOB is
\* iob.basaliob and the decay estimate is not used; the decay estimate and a
\* basal IOB of 0 are used exactly in the other cycles.
C16_AuthoritativeIobPreferred ==
    [][cycles' = cycles + 1 =>
          IF C16_Authoritative(srvStatus)
          THEN /\ cycBolusIob' = srvStatus.iob.n - srvStatus.basaliob.n
               /\ cycBasalIob' = srvStatus.basaliob.n
               /\ ~cycFallback'
          ELSE /\ cycBolusIob' = FallbackBolusIob(cycTreatments')
               /\ cycBasalIob' = 0
               /\ cycFallback']_vars

\* a cycle that took its IOB from the snapshot although the window holds a
\* dose whose decay estimate differs from it
C16_Witness ==
    /\ cycles > 0
    /\ ~cycFallback
    /\ C16_Authoritative(srvStatus)
    /\ cycBolusIob = srvStatus.iob.n - srvStatus.basaliob.n
    /\ cycBasalIob = srvStatus.basaliob.n /\ cycBasalIob > 0
    /\ FallbackBolusIob(cycTreatments) > 0
    /\ FallbackBolusIob(cycTreatments) # cycBolusIob

\* The age of a record's dose at NOW, in minutes.
C17_Age(t) == NOW - TreatmentTime(t).t

\* C17: a dose whose age is 300 minutes or more contributes 0 to the
\* fallback bolus IOB, so a list whose doses are all aged >= 300 minutes
\* gives a fallback bolus IOB of exactly 0.
C17_AgedDiaOrMoreContributesNothing ==
    "iob" \in applied =>
        /\ iobOut = FallbackBolusIob(
              SelectSeq(rawTreatments, LAMBDA t : C17_Age(t) < DIA_MINUTES))
        /\ (\A i \in DOMAIN rawTreatments : C17_Age(rawTreatments[i]) >= DIA_MINUTES)
              => iobOut = 0

\* C17, amended: a dose whose age is more than 300 minutes contributes 0, so
\* a list whose doses are all aged > 300 minutes gives exactly 0; a dose aged
\* exactly 300 minutes still contributes dose x 0.5^(300/60).
C17_OlderThanDiaContributesNothing ==
    "iob" \in applied =>
        /\ iobOut = FallbackBolusIob(
              SelectSeq(rawTreatments, LAMBDA t : C17_Age(t) <= DIA_MINUTES))
        /\ (\A i \in DOMAIN rawTreatments : C17_Age(rawTreatments[i]) > DIA_MINUTES)
              => iobOut = 0
        /\ (Len(rawTreatments) = 1 /\ C17_Age(rawTreatments[1]) = DIA_MINUTES)
              => iobOut * Pow2(DIA_MINUTES \div T_HALF)
                     = rawTreatments[1].insulin.n * IobScale

\* a dose aged more than 300 minutes beside a younger one: the estimate is
\* that of the younger dose alone
C17_Witness ==
    /\ "iob" \in applied
    /\ Len(rawTreatments) = 2
    /\ C17_Age(rawTreatments[1]) > DIA_MINUTES
    /\ C17_Age(rawTreatments[2]) = DIA_MINUTES - T_HALF
    /\ iobOut = FallbackBolusIob(<<rawTreatments[2]>>)
    /\ iobOut > 0

\* The unweighted sum of the grams of the carbohydrate records i .. Len(trs).
RECURSIVE C18_Grams(_, _)
C18_Grams(trs, i) ==
    IF i > Len(trs) THEN 0
    ELSE (IF C13_Positive(trs[i].carbs) THEN trs[i].carbs.n ELSE 0)
         + C18_Grams(trs, i + 1)

\* C18: in a cycle where the latest device snapshot gives no carbs-on-board
\* value, the cycle's COB is the unweighted sum of the grams of all
\* carbohydrate records in the query window, 0 only when the window holds
\* none.
C18_CobFallbackSumsCarbs ==
    [][(cycles' = cycles + 1 /\ ~(srvStatus.present /\ IsNumber(srvStatus.cob)))
          => cycCob' = C18_Grams(cycTreatments', 1)]_vars

\* The direction field holds a text of the vocabulary, in some letter case.
C19_Recognised(dir) == dir.ty = "str" /\ MappingGet(LowerStr(dir.s)).ok
C19_Latest == readings[Len(readings)]

\* C19: when the latest reading carries a direction text of the recognised
\* vocabulary the cycle's trend arrow is the mapped arrow and the regression
\* is not consulted, "none" giving the empty arrow; the regression is used
\* only when the direction is unrecognised or missing.  For the dashboard
\* cycle and for the widget cycle.
C19_DirectionTextBeforeRegression ==
    /\ ("dash" \in trendDone /\ C19_Recognised(C19_Latest)) =>
          dashArrow = MappingGet(LowerStr(C19_Latest.s)) /\ ~dashSlope
    /\ ("widget" \in trendDone /\ C19_Recognised(C19_Latest)) =>
          widArrow = MappingGet(LowerStr(C19_Latest.s)) /\ ~widSlope

\* The fields of a snapshot in its own key order, each with the nesting depth
\* of the object that holds it: the fields of obj (at depth d) from its i-th
\* item or element on.
RECURSIVE C20_Fields(_, _, _)
C20_Fields(obj, i, d) ==
    IF obj.ty \notin {"dict", "list"} \/ i > Len(obj.kids) THEN <<>>
    ELSE IF obj.ty = "dict"
         THEN <<[k |-> obj.kids[i].k, v |-> obj.kids[i].v, depth |-> d]>>
              \o C20_Fields(obj.kids[i].v, 1, d + 1)
              \o C20_Fields(obj, i + 1, d)
         ELSE C20_Fields(obj.kids[i], 1, d + 1) \o C20_Fields(obj, i + 1, d)

C20_Matches(f) ==
    /\ LowerStr(f.k) \in {sage, sensorage}
    /\ f.v.ty \in {"num", "commastr"}
C20_Eligible(fs) == {i \in DOMAIN fs : C20_Matches(fs[i]) /\ fs[i].depth <= DepthBound}

\* C20: the sensor age resolved from a device snapshot is the value of the
\* first key, in the snapshot's own key order, that equals "sage" or
\* "sensorage" in any letter case and holds a number or a numeric string;
\* later matching keys never replace it, and a matching key nested deeper
\* than the depth bound of 6 is not found.
C20_FirstSensorAgeKeyWins ==
    ageDone =>
        LET fs == C20_Fields(snapshot, 1, 0)
            el == C20_Eligible(fs)
        IN  IF el = {} THEN ~sensor_age_min.ok
            ELSE sensor_age_min =
                    Some(fs[CHOOSE i \in el : \A j \in el : i <= j].v.n)

\* a snapshot with two matching numeric keys, the first inside nested objects
\* and written as a comma decimal, the second at the top and different
C20_TwoKeys ==
    /\ ageDone
    /\ LET fs == C20_Fields(snapshot, 1, 0)
       IN  \E i, j \in C20_Eligible(fs) :
                 /\ i < j
                 /\ fs[i].depth > fs[j].depth
                 /\ fs[i].v.ty = "commastr"
                 /\ fs[i].v.n # fs[j].v.n
                 /\ sensor_age_min = Some(fs[i].v.n)

\* a query's answer holds no record
C21_NoRecord(resp) == resp.kind = "list" /\ resp.recs = <<>>

\* the lookup ran only if the snapshot search gave nothing
C21_LookupOnlyWithoutStatusAge == issued # <<>> => ~statusAge.ok

\* the exact-match query comes first, the regex query second and only after
\* an exact-match answer without a record
C21_RegexOnlyAfterEmptyExact ==
    /\ Len(issued) <= 2
    /\ issued # <<>> => issued[1].q = "exact"
    /\ Len(issued) = 2 =>
          /\ issued[2].q = "regex"
          /\ C21_NoRecord(issued[1].resp)

\* neither source gave a result: the age is absent
C21_AbsentWithoutResult ==
    lookPc = "done" =>
        /\ (~statusAge.ok /\ ~sc_ts.ok) => cycleAge = None_
        /\ (\E i \in DOMAIN issued : issued[i].resp.kind = "fail") => cycleAge = None_
        /\ (~statusAge.ok /\ \A i \in DOMAIN issued : C21_NoRecord(issued[i].resp))
              => cycleAge = None_

\* C21: in a cycle the "Sensor Change" lookup runs only when the snapshot
\* search gave no sensor age, the regex query is issued only after the
\* exact-match query returned no record, and when neither the snapshot nor
\* the lookup gives a result (a failed query included) the sensor age is
\* absent, never 0.
C21_LookupOrderAndAbsence ==
    /\ C21_LookupOnlyWithoutStatusAge
    /\ C21_RegexOnlyAfterEmptyExact
    /\ C21_AbsentWithoutResult

\* a cycle whose snapshot held no age, whose exact-match query found no
\* record and whose regex query failed: the age is absent
C21_Witness ==
    /\ lookPc = "done"
    /\ ~statusAge.ok
    /\ Len(issued) = 2
    /\ issued[2].resp.kind = "fail"
    /\ cycleAge = None_

\* the events of a list at instant ts, and how many of them come before
\* position i of the list
C22_At(list, ts) == {i \in DOMAIN list : list[i].ok /\ list[i].v = ts}
C22_Before(list, ts, i) == Cardinality({j \in C22_At(list, ts) : j < i})

\* the instants of the groups that have a glucose sample at or before them
C22_Groups ==
    {ts \in LabelTimes :
        /\ C22_At(bolus_list, ts) \cup C22_At(carbs_list, ts) # {}
        /\ \E r \in DOMAIN bgRows : bgRows[r].time <= ts}

\* the glucose sample at or immediately preceding ts
C22_PointY(ts) ==
    LET r == CHOOSE r \in DOMAIN bgRows :
                /\ bgRows[r].time <= ts
                /\ \A q \in DOMAIN bgRows : bgRows[q].time <= ts => bgRows[q].time <= bgRows[r].time
    IN  bgRows[r].mmol

\* the label placed for an event of a group
C22_Label(ts, is_bolus, i) ==
    {l \in DOMAIN labels :
        labels[l].ts = ts /\ labels[l].is_bolus = is_bolus /\ labels[l].item = i}

\* C22: for each group of events at one instant, if the point value plus
\* headroom fits under the current axis ceiling, every bolus gets offset +8
\* and the k-th carb (k = 0, 1, 2, ...) gets offset -10 - 12k; otherwise the
\* whole group goes below, boluses first then carbs in insertion order, at
\* offsets -10, -22, -34, ..., and no label of that group is placed above.
C22_GroupOffsets ==
    annotated =>
        \A ts \in C22_Groups :
            LET fits == C22_PointY(ts) + ABOVE_ROOM <= ymaxBefore
                nb == Cardinality(C22_At(bolus_list, ts))
            IN  /\ \A i \in C22_At(bolus_list, ts) :
                     /\ Cardinality(C22_Label(ts, TRUE, i)) = 1
                     /\ \A l \in C22_Label(ts, TRUE, i) :
                           labels[l].off =
                              IF fits THEN 8
                              ELSE -10 - 12 * C22_Before(bolus_list, ts, i)
                /\ \A i \in C22_At(carbs_list, ts) :
                     /\ Cardinality(C22_Label(ts, FALSE, i)) = 1
                     /\ \A l \in C22_Label(ts, FALSE, i) :
                           labels[l].off =
                              IF fits THEN -10 - 12 * C22_Before(carbs_list, ts, i)
                              ELSE -10 - 12 * (nb + C22_Before(carbs_list, ts, i))
                /\ ~fits => \A l \in DOMAIN labels : labels[l].ts = ts => labels[l].off < 0

\* one group with a bolus and a carb that fits and is placed around its
\* point, and one with a bolus and a carb that does not fit and goes below
C22_Witness ==
    /\ annotated
    /\ \E ts \in C22_Groups :
          /\ C22_PointY(ts) + ABOVE_ROOM <= ymaxBefore
          /\ \E l, m \in DOMAIN labels :
                /\ labels[l].ts = ts /\ labels[l].is_bolus /\ labels[l].off = 8
                /\ labels[m].ts = ts /\ ~labels[m].is_bolus /\ labels[m].off = -10
    /\ \E ts \in C22_Groups :
          /\ C22_PointY(ts) + ABOVE_ROOM > ymaxBefore
          /\ \E l, m \in DOMAIN labels :
                /\ labels[l].ts = ts /\ labels[l].is_bolus /\ labels[l].off = -10
                /\ labels[m].ts = ts /\ ~labels[m].is_bolus /\ labels[m].off = -22

\* C23: within one group of simultaneous events no two labels receive the
\* same offset, for every number of boluses and carbs in the group and for
\* both the above and the below placement.
C23_DistinctOffsetsInGroup ==
    annotated =>
        \A a, b \in DOMAIN labels :
            (a # b /\ labels[a].ts = labels[b].ts) => labels[a].off # labels[b].off

\* C24: after label placement finishes, the axis ceiling is at least
\* point_y + 0.8 for every label that was placed above its point, and
\* placement never lowers the ceiling it started with.
C24_CeilingCoversLabelsAbove ==
    annotated =>
        /\ \A l \in DOMAIN labels : labels[l].off > 0 => cur_ymax >= labels[l].y + 8
        /\ cur_ymax >= ymaxBefore

\* placement that put a label above a point lower than another group's
\* point, under a ceiling both fit under
C24_Witness ==
    /\ annotated
    /\ \E a, b \in DOMAIN labels :
          /\ labels[a].off > 0 /\ labels[b].off > 0
          /\ labels[a].y < labels[b].y
          /\ labels[b].y + 8 < cur_ymax

\* C25: after any sequence of the widget's mode actions (toggle compact,
\* toggle minimal, enable diagram mode, save settings), the compact flag and
\* the minimal flag are never both true.
C25_CompactAndMinimalExclusive == ~(compact /\ minimal)

\* compact mode entered, with settings saved along the way and cycles run
C25_Witness ==
    /\ compact /\ ~minimal
    /\ saved.cfg # "none"
    /\ wCycles > 0

\* C26: whenever the widget is in Dexcom-only mode, the minimal flag is true
\* and the compact flag is false, after construction and after any sequence
\* of menu actions and settings saves; toggle compact, toggle minimal and
\* diagram mode leave the flags unchanged in that mode.
C26_DexcomOnlyForcesMinimal ==
    /\ [](dexcomOnly => (minimal /\ ~compact))
    /\ [][(dexcomOnly /\ (ToggleCompact \/ ToggleMinimal \/ EnableDiagramMode))
            => UNCHANGED <<compact, minimal>>]_vars

\* Dexcom-only mode entered by a settings save
C26_Witness ==
    /\ dexcomOnly
    /\ saved.cfg # "none"
    /\ minimal /\ ~compact

\* C27: after any sequence of mode actions and settings saves, the chart
\* frame is shown exactly when neither the compact flag nor the minimal flag
\* is set, and the chart is only redrawn by a cycle when the widget is in
\* none of compact, minimal and Dexcom-only mode.
C27_ChartFollowsModes ==
    /\ [](chartShown <=> (~compact /\ ~minimal))
    /\ [][(applies' < applies /\ lastApply' = "chart")
            => (~compact /\ ~minimal /\ ~dexcomOnly)]_vars

\* a cycle redrew the chart after settings were saved
C27_Witness ==
    /\ lastApply = "chart"
    /\ saved.cfg # "none"
    /\ chartShown

\* C28: the widget's information labels are hidden exactly when the minimal
\* flag is true, after construction and after any sequence of mode actions
\* and settings saves, including entering and leaving Dexcom-only mode.
C28_LabelsHiddenIffMinimal == labelsShown <=> ~minimal

\* C29: after any sequence of user actions that request a refresh, at most
\* one future periodic refresh is pending: the pending callbacks other than
\* those just requested with delay 0 never number more than one.
C29_OnePeriodicRefreshPending == timers - immediate <= 1

\* C30: after settings holding an endpoint and a credential are saved, the
\* next update cycle uses the saved values: its missing-endpoint and
\* missing-credential checks report exactly when the saved values lack one
\* of the two (outside Dexcom-only mode), and the session in use was built
\* after the save.
C30_NextCycleUsesSavedSettings ==
    /\ [][(saved' # saved /\ wCycles' = wCycles) => ~netSession']_vars
    /\ [][(saved.cfg # "none" /\ ~saved.old /\ wCycles' = wCycles + 1)
            => ((wReports' # wReports) <=> (~dexcomOnly /\ saved.cfg = "partial"))]_vars

====
